---------------------------- MODULE Spec2Model ----------------------------
(***************************************************************************)
(* PyStringManip: the pipeline engine (api/pipeline.py) and its driver     *)
(* (main.py).  Strings are sequences of one-character strings.  An         *)
(* optional value (Python's None or a value) is <<>> or <<value>>.         *)
(***************************************************************************)
EXTENDS Integers, Sequences, FiniteSets, TLC

(***************************************************************************)
(* Bounds of the model.                                                    *)
(***************************************************************************)
\* then/fork calls a client makes on the pipeline objects before executing
MaxNodes == 3
\* delimiter-separated fields of an input text
MaxFields == 3
\* entries of the driver's configuration list
MaxConfig == 4
\* characters of the free part of a token's parameter list
MaxTail == 3
\* positional tokens handed to config.parse_args
MaxTokens == 2
\* entries of the array "operations" of a configuration file
MaxEntries == 2
\* ";"-separated fields of a ","-separated field, and ","-separated fields, of a wide input
MaxInner == 2
MaxOuter == 2
\* characters of a class identifier
MaxName == 3
\* classes among the globals of api.operations
MaxClasses == 2

None == <<>>
Some(x) == <<x>>
IsNone(o) == o = <<>>
Val(o) == o[1]

(***************************************************************************)
(* Python string primitives used by the engine.                            *)
(***************************************************************************)
\* d in s
Contains(s, d) ==
    \E k \in 1..(Len(s) - Len(d) + 1) : SubSeq(s, k, k + Len(d) - 1) = d

\* s.find(d) + 1 for a non-empty d that occurs in s
FindFirst(s, d) ==
    CHOOSE k \in 1..(Len(s) - Len(d) + 1) :
        /\ SubSeq(s, k, k + Len(d) - 1) = d
        /\ \A m \in 1..(k - 1) : SubSeq(s, m, m + Len(d) - 1) # d

RECURSIVE StrSplit(_, _)
\* s.split(d) for a non-empty d: every piece, the empty ones included
StrSplit(s, d) ==
    IF ~Contains(s, d) THEN <<s>>
    ELSE LET k == FindFirst(s, d)
         IN  <<SubSeq(s, 1, k - 1)>> \o StrSplit(SubSeq(s, k + Len(d), Len(s)), d)

\* variant with a seeded fault: the piece before the first delimiter is kept even when empty
FilterAfterFirst(pieces) ==
    IF pieces = <<>> THEN <<>>
    ELSE <<pieces[1]>> \o SelectSeq(Tail(pieces), LAMBDA x : x # <<>>)

\* filter(None, pieces): the non-empty pieces, order kept
FilterNonEmpty(pieces) == SelectSeq(pieces, LAMBDA x : x # <<>>)

RECURSIVE StrJoin(_, _)
\* j.join(parts)
StrJoin(j, parts) ==
    IF parts = <<>> THEN <<>>
    ELSE IF Len(parts) = 1 THEN parts[1]
    ELSE parts[1] \o j \o StrJoin(j, Tail(parts))

(***************************************************************************)
(* The operations of the registry that the model instantiates.             *)
(***************************************************************************)
\* Reverse.apply with by_line = False: s[::-1]
Reverse(s) == [k \in 1..Len(s) |-> s[Len(s) + 1 - k]]

IsDigit(c) == c \in {"0", "1", "2", "3", "4", "5", "6", "7", "8", "9"}

RECURSIVE StripZeros(_)
StripZeros(s) ==
    IF Len(s) > 1 /\ s[1] = "0" THEN StripZeros(Tail(s)) ELSE s

\* int(s, 10) accepts s (no sign, blank or underscore is in the alphabet)
IsInt(s) == Len(s) > 0 /\ \A k \in 1..Len(s) : IsDigit(s[k])

\* FromBase.apply with base = 10: str(int(s, 10))
FromBase(s) ==
    IF IsInt(s) THEN [ok |-> TRUE, val |-> StripZeros(s), exc |-> ""]
    ELSE [ok |-> FALSE, val |-> <<>>, exc |-> "ValueError"]

\* PadLeft.apply with c = ' ': every line right-justified to the longest line
PadLeft(s) ==
    LET lines == StrSplit(s, <<"\n">>)
        longest == CHOOSE n \in {Len(lines[k]) : k \in 1..Len(lines)} :
                      \A k \in 1..Len(lines) : Len(lines[k]) <= n
        rjust(line) == [k \in 1..(longest - Len(line)) |-> " "] \o line
    IN  StrJoin(<<"\n">>, [k \in 1..Len(lines) |-> rjust(lines[k])])

OpNames == {"reverse", "from_base"}

\* op.apply(s): the value returned, or the exception raised
ApplyOp(name, s) ==
    CASE name = "reverse" -> [ok |-> TRUE, val |-> Reverse(s), exc |-> ""]
      [] name = "from_base" -> FromBase(s)
      [] name = "pad_left" -> [ok |-> TRUE, val |-> PadLeft(s), exc |-> ""]

(***************************************************************************)
(* State.                                                                  *)
(***************************************************************************)
VARIABLES
    heap,       \* the Pipeline / ParallelPipeline objects, by identity 1..Len(heap)
    last,       \* what the last then/fork/merge call returned or raised
    pc,         \* where the client is: "build", "exec" (inside execute), "done";
                \* the driver also has "parse", "loop" and "exit"
    threads,    \* the interpreter's threads: <<>> is the caller of execute
    outcome,    \* None, or what the top-level execute returned or raised
    warnings,   \* number of logger.warning('pipeline is empty') calls
    applied,    \* applied[p]: number of apply() calls on operations of p's list
    spawned,    \* spawned[p]: number of threads created by p's execute
    overtaken,  \* a branch thread has ended before one created before it
    argv,       \* main: the operation tokens of the command line, split
    data,       \* main: the text read from stdin
    config,     \* main: operations_config.operations, once parsed
    pos,        \* main: the loop's i
    skip,       \* main: the loop's skip counter
    pipeline,   \* main: the object the variable pipeline refers to
    stdout,     \* main: None, or the text printed to stdout
    stderr,     \* main: None, or the error message printed to stderr
    omitted,    \* main: the 1-based positions the loop passed over
    cli,        \* config.parse_args: parsed_args (the tokens and the -c option)
    operations, \* config.parse_args: the OperationConfig list built so far
    result,     \* config.parse_args: None, the Config returned or the error raised
    classes,    \* operations/__init__: the classes of globals(), in the order of the dict
    visited,    \* operations/__init__: how many of them the loop of _init has passed
    OPERATIONS  \* operations/__init__: the dict _OPERATIONS, as pairs <<key, identifier>>

engine == <<heap, last, pc, threads, outcome, warnings, applied, spawned, overtaken>>
parser == <<cli, operations, result>>
registry == <<classes, visited, OPERATIONS>>
driver == <<argv, data, config, pos, skip, pipeline, stdout, stderr, omitted, parser, registry>>
vars == <<engine, driver>>

(***************************************************************************)
(* Pipeline objects (pipeline.py).                                         *)
(***************************************************************************)
OpNode(name) == [kind |-> "op", name |-> name, ref |-> 0]
PipeNode(id) == [kind |-> "pipe", name |-> "", ref |-> id]

\* Pipeline.__init__
NewPipeline ==
    [cls |-> "Pipeline", operations |-> <<>>, parent |-> 0,
     delimiter |-> None, joiner |-> None]

\* ParallelPipeline.__init__
NewParallelPipeline(parent, delimiter) ==
    [cls |-> "ParallelPipeline", operations |-> <<>>, parent |-> parent,
     delimiter |-> Some(delimiter), joiner |-> None]

\* a Python value handed to merge as joiner
StrArg(s) == [type |-> "str", val |-> s]
IntArg == [type |-> "int", val |-> <<>>]

Returned(h, ret) == [heap |-> h, exc |-> "", ret |-> ret]
Raised(h, exc) == [heap |-> h, exc |-> exc, ret |-> 0]

\* Pipeline.then: the heap after p.then(op), and the object returned
PipelineThen(h, p, name) ==
    Returned([h EXCEPT ![p].operations = Append(@, OpNode(name))], p)

\* variant with a seeded fault: the new group is always hung on the main pipeline
PipelineForkOnMain(h, p, delimiter) ==
    LET new == Len(h) + 1
    IN  Returned(Append([h EXCEPT ![1].operations = Append(@, PipeNode(new))],
                        NewParallelPipeline(1, delimiter)),
                 new)

\* Pipeline.fork
PipelineFork(h, p, delimiter) ==
    LET new == Len(h) + 1
    IN  Returned(Append([h EXCEPT ![p].operations = Append(@, PipeNode(new))],
                        NewParallelPipeline(p, delimiter)),
                 new)

\* variant with a seeded fault: "already merged" tested by truth value, so "" counts as not merged
PipelineMergeTruthy(h, p, joiner) ==
    IF h[p].cls # "ParallelPipeline" THEN Raised(h, "AttributeError")
    ELSE IF h[p].joiner \notin {None, Some(<<>>)} THEN Raised(h, "RuntimeError")
    ELSE IF joiner.type # "str" THEN Raised(h, "ValueError")
    ELSE Returned([h EXCEPT ![p].joiner = Some(joiner.val)], h[p].parent)

\* ParallelPipeline.merge; a plain Pipeline has no such attribute
PipelineMerge(h, p, joiner) ==
    IF h[p].cls # "ParallelPipeline" THEN Raised(h, "AttributeError")
    ELSE IF h[p].joiner # None THEN Raised(h, "RuntimeError")
    ELSE IF joiner.type # "str" THEN Raised(h, "ValueError")
    ELSE Returned([h EXCEPT ![p].joiner = Some(joiner.val)], h[p].parent)

(***************************************************************************)
(* Execution (Pipeline.execute, ParallelPipeline.execute and the branch    *)
(* threads).  A thread is named by its path from the caller of execute:    *)
(* the k-th branch thread created by thread t is Append(t, k).  A frame of *)
(* kind "exec" is an activation of Pipeline.execute's loop over the node   *)
(* list of frame.pipe; a frame of kind "par" is an activation of the split *)
(* branch of ParallelPipeline.execute.                                     *)
(***************************************************************************)
Main == <<>>
NoThreads == [t \in {} |-> 0]

ExecFrame(p, s) ==
    [kind |-> "exec", pipe |-> p, i |-> 1, buffer |-> s, input |-> s,
     log |-> <<>>, n |-> 0, phase |-> ""]

ParFrame(p, s, n) ==
    [kind |-> "par", pipe |-> p, i |-> 1, buffer |-> <<>>, input |-> s,
     log |-> <<>>, n |-> n, phase |-> IF n = 0 THEN "join" ELSE "start"]

\* _ThreadWithReturnValue(target=p.execute, arg=substring), p sharing g's node list
NewThread(g, substring) ==
    [state |-> "new", stack |-> <<ExecFrame(g, substring)>>, result |-> None]

\* variant with a seeded fault: the empty substrings are kept
SubstringsAll(s, delimiter) == StrSplit(s, delimiter)

\* filter(None, s.split(delimiter))
Substrings(s, delimiter) == FilterNonEmpty(StrSplit(s, delimiter))

\* variant with a seeded fault: a merged group splits whether or not the delimiter occurs
CallExecuteAlwaysSplit(h, p, s) ==
    IF h[p].cls = "ParallelPipeline"
    THEN IF h[p].joiner = None
         THEN [act |-> "raise", exc |-> "RuntimeError", subs |-> <<>>]
         ELSE IF Val(h[p].delimiter) = <<>>
         THEN [act |-> "raise", exc |-> "ValueError", subs |-> <<>>]
         ELSE [act |-> "par", exc |-> "",
               subs |-> FilterNonEmpty(StrSplit(s, Val(h[p].delimiter)))]
    ELSE [act |-> "exec", exc |-> "", subs |-> <<>>]

\* variant with a seeded fault: the joiner is looked at only when the input is split
CallExecuteLateCheck(h, p, s) ==
    IF h[p].cls = "ParallelPipeline"
    THEN IF Contains(s, Val(h[p].delimiter))
         THEN IF h[p].joiner = None
              THEN [act |-> "raise", exc |-> "RuntimeError", subs |-> <<>>]
              ELSE IF Val(h[p].delimiter) = <<>>
              THEN [act |-> "raise", exc |-> "ValueError", subs |-> <<>>]
              ELSE [act |-> "par", exc |-> "",
                    subs |-> Substrings(s, Val(h[p].delimiter))]
         ELSE [act |-> "exec", exc |-> "", subs |-> <<>>]
    ELSE [act |-> "exec", exc |-> "", subs |-> <<>>]

\* variant with a seeded fault: the empty delimiter is taken not to occur in any input
CallExecuteEmptyAbsent(h, p, s) ==
    IF h[p].cls = "ParallelPipeline"
    THEN IF h[p].joiner = None
         THEN [act |-> "raise", exc |-> "RuntimeError", subs |-> <<>>]
         ELSE IF Val(h[p].delimiter) # <<>> /\ Contains(s, Val(h[p].delimiter))
         THEN [act |-> "par", exc |-> "",
               subs |-> Substrings(s, Val(h[p].delimiter))]
         ELSE [act |-> "exec", exc |-> "", subs |-> <<>>]
    ELSE [act |-> "exec", exc |-> "", subs |-> <<>>]

\* which way p.execute(s) goes: it raises, runs the node list on s, or splits
CallExecute(h, p, s) ==
    IF h[p].cls = "ParallelPipeline"
    THEN IF h[p].joiner = None
         THEN [act |-> "raise", exc |-> "RuntimeError", subs |-> <<>>]
         ELSE IF Contains(s, Val(h[p].delimiter))
         THEN IF Val(h[p].delimiter) = <<>>
              THEN [act |-> "raise", exc |-> "ValueError", subs |-> <<>>]
              ELSE [act |-> "par", exc |-> "",
                    subs |-> Substrings(s, Val(h[p].delimiter))]
         ELSE [act |-> "exec", exc |-> "", subs |-> <<>>]
    ELSE [act |-> "exec", exc |-> "", subs |-> <<>>]

Children(t, n) == {Append(t, k) : k \in 1..n}

\* the threads after thread t, whose stack is st, has entered p.execute(s)
Entered(ths, t, st, p, s) ==
    LET c == CallExecute(heap, p, s)
        n == Len(c.subs)
    IN  IF c.act = "exec"
        THEN [ths EXCEPT ![t].stack = Append(st, ExecFrame(p, s))]
        ELSE [x \in DOMAIN ths \cup Children(t, n) |->
                IF x = t THEN [ths[t] EXCEPT !.stack = Append(st, ParFrame(p, s, n))]
                ELSE IF x \in DOMAIN ths THEN ths[x]
                ELSE NewThread(p, c.subs[x[Len(x)]])]

\* variant with a seeded fault: the node's output is dropped, buffer keeps its value
ResumedStale(st, v) == [st EXCEPT ![Len(st)].i = @ + 1]

\* thread t's stack st, with a value returned to its top frame (a node's output)
Resumed(st, v) ==
    [st EXCEPT ![Len(st)].buffer = v, ![Len(st)].i = @ + 1]

\* variant with a seeded fault: the branches of one execute share the result
\* slot of the first of them
AfterReturnSharedSlot(ths, t, v) ==
    LET st == SubSeq(ths[t].stack, 1, Len(ths[t].stack) - 1)
    IN  IF st # <<>> THEN [ths EXCEPT ![t].stack = Resumed(st, v)]
        ELSE IF t = Main THEN NoThreads
        ELSE [ths EXCEPT ![t] = [state |-> "done", stack |-> <<>>, result |-> Some(v)],
                         ![Append(SubSeq(t, 1, Len(t) - 1), 1)].result = Some(v)]

\* the threads after the top frame of thread t returns v
AfterReturn(ths, t, v) ==
    LET st == SubSeq(ths[t].stack, 1, Len(ths[t].stack) - 1)
    IN  IF st # <<>> THEN [ths EXCEPT ![t].stack = Resumed(st, v)]
        ELSE IF t = Main THEN NoThreads
        ELSE [ths EXCEPT ![t] = [state |-> "done", stack |-> <<>>, result |-> Some(v)]]

\* variant with a seeded fault: an exception in one branch thread also ends its unfinished siblings
AfterRaiseAbortsAll(ths, t) ==
    IF t = Main THEN NoThreads
    ELSE [x \in DOMAIN ths |->
            IF /\ Len(x) = Len(t)
               /\ SubSeq(x, 1, Len(x) - 1) = SubSeq(t, 1, Len(t) - 1)
               /\ ths[x].state # "done"
            THEN [state |-> "failed", stack |-> <<>>, result |-> None]
            ELSE ths[x]]

\* the threads after an exception leaves thread t: no frame of pipeline.py
\* catches it; _ThreadWithReturnValue.run never assigns _result
AfterRaise(ths, t) ==
    IF t = Main THEN NoThreads
    ELSE [ths EXCEPT ![t] = [state |-> "failed", stack |-> <<>>, result |-> None]]

Ok(v) == [ok |-> TRUE, val |-> v, exc |-> ""]
Err(e) == [ok |-> FALSE, val |-> <<>>, exc |-> e]

Top(t) == threads[t].stack[Len(threads[t].stack)]
Running(t) == t \in DOMAIN threads /\ threads[t].state = "running"
Nodes(p) == heap[p].operations

(***************************************************************************)
(* The inputs the model draws from.                                        *)
(***************************************************************************)
Fields == {<<>>, <<"a">>, <<"0", "1">>}
Delimiters == {<<",">>}
Joiners == {<<"|">>, <<>>}
JoinerArgs == {StrArg(j) : j \in Joiners} \cup {IntArg}

RECURSIVE SeqsUpTo(_, _)
\* the sequences over S of length 1..n
SeqsUpTo(S, n) ==
    IF n = 0 THEN {}
    ELSE LET shorter == SeqsUpTo(S, n - 1)
         IN  {<<x>> : x \in S} \cup shorter
               \cup {Append(q, x) : q \in shorter, x \in S}

\* texts of up to MaxFields fields separated by ","
Inputs == {StrJoin(<<",">>, fs) : fs \in SeqsUpTo(Fields, MaxFields)}

(***************************************************************************)
(* A client of the pipeline API: it builds with then / fork / merge on any *)
(* object it holds, then calls execute once.                               *)
(***************************************************************************)
NoCall == [call |-> "", target |-> 0, arg |-> <<>>, exc |-> "", ret |-> 0]
Call(name, p, arg, r) ==
    [call |-> name, target |-> p, arg |-> arg, exc |-> r.exc, ret |-> r.ret]

Size(h) == Len(h) - 1 + Cardinality({<<p, k>> \in (1..Len(h)) \X (1..MaxNodes + 1) :
                k <= Len(h[p].operations) /\ h[p].operations[k].kind = "op"})

\* the number of ","-separated fields of a text
FieldCount(s) == Len(StrSplit(s, <<",">>))

Zeros(h) == [p \in 1..Len(h) |-> 0]

Init ==
    /\ heap = <<NewPipeline>>
    /\ last = NoCall
    /\ pc = "build"
    /\ threads = NoThreads
    /\ outcome = None
    /\ warnings = 0
    /\ applied = <<0>>
    /\ spawned = <<0>>
    /\ overtaken = FALSE
    /\ argv = <<>>
    /\ data = <<>>
    /\ config = None
    /\ pos = 0
    /\ skip = 0
    /\ pipeline = 1
    /\ stdout = None
    /\ stderr = None
    /\ omitted = {}
    /\ classes = <<>>
    /\ visited = 0
    /\ OPERATIONS = {}
    /\ cli = None
    /\ operations = <<>>
    /\ result = None

Built(r, name, p, arg) ==
    /\ heap' = r.heap
    /\ last' = Call(name, p, arg, r)
    /\ applied' = Zeros(r.heap)
    /\ spawned' = Zeros(r.heap)
    /\ UNCHANGED <<pc, threads, outcome, warnings, overtaken, driver>>

Then(p, name) ==
    /\ pc = "build"
    /\ Size(heap) < MaxNodes
    /\ Built(PipelineThen(heap, p, name), "then", p, <<name>>)

Fork(p, delimiter) ==
    /\ pc = "build"
    /\ Size(heap) < MaxNodes
    /\ Built(PipelineFork(heap, p, delimiter), "fork", p, delimiter)

Merge(p, joiner) ==
    /\ pc = "build"
    /\ Built(PipelineMerge(heap, p, joiner), "merge", p, <<>>)

(***************************************************************************)
(* Steps of execute.                                                       *)
(***************************************************************************)
\* thread t ends while a branch thread created before it by the same execute has not
Overtakes(ths, t) ==
    /\ t # Main
    /\ \E k \in 1..(t[Len(t)] - 1) :
          ths[Append(SubSeq(t, 1, Len(t) - 1), k)].state \in {"new", "running"}

\* variant with a seeded fault: the loop of the calling thread swallows the
\* exception of a node and goes on with the next node
ThrowResumes(ths, t, exc) ==
    IF t = Main /\ ths[t].stack # <<>> /\ ths[t].stack[Len(ths[t].stack)].kind = "exec"
    THEN /\ threads' = [ths EXCEPT ![t].stack =
                            Resumed(@, ths[t].stack[Len(ths[t].stack)].buffer)]
         /\ UNCHANGED <<overtaken, outcome, pc>>
    ELSE /\ threads' = AfterRaise(ths, t)
         /\ overtaken' = (overtaken \/ Overtakes(ths, t))
         /\ IF t = Main
            THEN outcome' = Some(Err(exc)) /\ pc' = "done"
            ELSE UNCHANGED <<outcome, pc>>

\* an exception leaves thread t; in the caller of execute it ends the call
Throw(ths, t, exc) ==
    /\ threads' = AfterRaise(ths, t)
    /\ overtaken' = (overtaken \/ Overtakes(ths, t))
    /\ IF t = Main
       THEN outcome' = Some(Err(exc)) /\ pc' = "done"
       ELSE UNCHANGED <<outcome, pc>>

\* the top frame of thread t returns v
Give(ths, t, v) ==
    /\ threads' = AfterReturn(ths, t, v)
    /\ overtaken' = (overtaken \/ (Len(ths[t].stack) = 1 /\ Overtakes(ths, t)))
    /\ IF t = Main /\ Len(ths[t].stack) = 1
       THEN outcome' = Some(Ok(v)) /\ pc' = "done"
       ELSE UNCHANGED <<outcome, pc>>

\* thread t, its stack being st, calls heap[p].execute(s)
Invoke(ths, t, st, p, s) ==
    LET c == CallExecute(heap, p, s)
    IN  /\ spawned' = [spawned EXCEPT ![p] = @ + Len(c.subs)]
        /\ IF c.act = "raise"
           THEN Throw(ths, t, c.exc)
           ELSE /\ threads' = Entered(ths, t, st, p, s)
                /\ pc' = "exec"
                /\ UNCHANGED <<outcome, overtaken>>

\* the stack of thread t with the call of node i on the buffer noted in its log
Logged(t) ==
    LET st == threads[t].stack
        f == st[Len(st)]
    IN  [st EXCEPT ![Len(st)].log = Append(@, [node |-> f.i, input |-> f.buffer])]

AtNode(t, kind) ==
    /\ pc = "exec"
    /\ Running(t)
    /\ Top(t).kind = "exec"
    /\ Top(t).i <= Len(Nodes(Top(t).pipe))
    /\ Nodes(Top(t).pipe)[Top(t).i].kind = kind

\* the client calls p.execute(s)
Execute(p, s) ==
    /\ pc = "build"
    /\ Size(heap) + FieldCount(s) < MaxNodes + MaxFields
    /\ Invoke([t \in {Main} |-> [state |-> "running", stack |-> <<>>, result |-> None]],
              Main, <<>>, p, s)
    /\ last' = Call("execute", p, s, Returned(heap, 0))
    /\ UNCHANGED <<heap, warnings, applied, driver>>

\* Pipeline.execute, line 97: buffer = op.apply(buffer)
Apply(t) ==
    /\ AtNode(t, "op")
    /\ LET f == Top(t)
           r == ApplyOp(Nodes(f.pipe)[f.i].name, f.buffer)
       IN  /\ applied' = [applied EXCEPT ![f.pipe] = @ + 1]
           /\ IF r.ok
              THEN /\ threads' = [threads EXCEPT ![t].stack = Resumed(Logged(t), r.val)]
                   /\ UNCHANGED <<outcome, pc, overtaken>>
              ELSE Throw(threads, t, r.exc)
    /\ UNCHANGED <<heap, last, warnings, spawned, driver>>

\* variant with a seeded fault: the group is given the input of the enclosing
\* execute instead of the buffer
CallGroupOnInput(t) ==
    /\ AtNode(t, "pipe")
    /\ LET f == Top(t)
       IN  Invoke([threads EXCEPT ![t].stack = Logged(t)], t, Logged(t),
                  Nodes(f.pipe)[f.i].ref, f.input)
    /\ UNCHANGED <<heap, last, warnings, applied, driver>>

\* Pipeline.execute, line 95: buffer = op.execute(buffer), entering the group
CallGroup(t) ==
    /\ AtNode(t, "pipe")
    /\ LET f == Top(t)
       IN  Invoke([threads EXCEPT ![t].stack = Logged(t)], t, Logged(t),
                  Nodes(f.pipe)[f.i].ref, f.buffer)
    /\ UNCHANGED <<heap, last, warnings, applied, driver>>

\* variant with a seeded fault: the empty pipeline returns silently
EmptyWarningNever(p) == 0

\* lines 85-86: the warning 'pipeline is empty', for an empty node list only
EmptyWarning(p) == IF Nodes(p) = <<>> THEN 1 ELSE 0

\* Pipeline.execute returns: line 87 (empty list, with a warning) or line 98
Return(t) ==
    /\ pc = "exec"
    /\ Running(t)
    /\ Top(t).kind = "exec"
    /\ Top(t).i > Len(Nodes(Top(t).pipe))
    /\ warnings' = warnings + EmptyWarning(Top(t).pipe)
    /\ Give(threads, t, Top(t).buffer)
    /\ UNCHANGED <<heap, last, applied, spawned, driver>>

AtPar(t, phase) ==
    /\ pc = "exec"
    /\ Running(t)
    /\ Top(t).kind = "par"
    /\ Top(t).phase = phase

\* variant with a seeded fault: only the first thread of the list is started
StartThreadFirstOnly(t) ==
    /\ AtPar(t, "start")
    /\ LET f == Top(t)
       IN  threads' = [threads EXCEPT
                ![Append(t, f.i)].state = "running",
                ![t].stack[Len(threads[t].stack)] = [f EXCEPT !.i = 1, !.phase = "join"]]
    /\ UNCHANGED <<heap, last, pc, outcome, warnings, applied, spawned, overtaken, driver>>

\* ParallelPipeline.execute, line 152: thread.start() for the next thread
StartThread(t) ==
    /\ AtPar(t, "start")
    /\ LET f == Top(t)
           more == f.i < f.n
       IN  threads' = [threads EXCEPT
                ![Append(t, f.i)].state = "running",
                ![t].stack[Len(threads[t].stack)] =
                    [f EXCEPT !.i = IF more THEN f.i + 1 ELSE 1,
                              !.phase = IF more THEN "start" ELSE "join"]]
    /\ UNCHANGED <<heap, last, pc, outcome, warnings, applied, spawned, overtaken, driver>>

\* variant with a seeded fault: join gives up at once instead of waiting (a timeout of 0)
JoinThreadNoWait(t) ==
    /\ AtPar(t, "join")
    /\ Top(t).i <= Top(t).n
    /\ threads' = [threads EXCEPT ![t].stack[Len(threads[t].stack)].i = @ + 1]
    /\ UNCHANGED <<heap, last, pc, outcome, warnings, applied, spawned, overtaken, driver>>

\* ParallelPipeline.execute, line 154: thread.join() returns for the next thread
JoinThread(t) ==
    /\ AtPar(t, "join")
    /\ Top(t).i <= Top(t).n
    /\ threads[Append(t, Top(t).i)].state \in {"done", "failed"}
    /\ threads' = [threads EXCEPT ![t].stack[Len(threads[t].stack)].i = @ + 1]
    /\ UNCHANGED <<heap, last, pc, outcome, warnings, applied, spawned, overtaken, driver>>

\* joiner.join(results): a str, or TypeError when a result is None
JoinResults(joiner, results) ==
    IF \E k \in 1..Len(results) : results[k] = None THEN Err("TypeError")
    ELSE Ok(StrJoin(joiner, [k \in 1..Len(results) |-> Val(results[k])]))

\* variant with a seeded fault: the results taken from the last thread to the first
ResultsReversed(t, n) == [k \in 1..n |-> threads[Append(t, n + 1 - k)].result]

\* the results of thread t's branch threads, in the order of the list threads
Results(t, n) == [k \in 1..n |-> threads[Append(t, k)].result]

\* ParallelPipeline.execute, line 156: every thread joined, the results are merged
MergeResults(t) ==
    /\ AtPar(t, "join")
    /\ Top(t).i > Top(t).n
    /\ LET f == Top(t)
           r == JoinResults(Val(heap[f.pipe].joiner), Results(t, f.n))
           rest == [x \in DOMAIN threads \ Children(t, f.n) |-> threads[x]]
       IN  IF r.ok THEN Give(rest, t, r.val) ELSE Throw(rest, t, r.exc)
    /\ UNCHANGED <<heap, last, warnings, applied, spawned, driver>>

Step(t) ==
    \/ Apply(t)
    \/ CallGroup(t)
    \/ Return(t)
    \/ StartThread(t)
    \/ JoinThread(t)
    \/ MergeResults(t)

Next ==
    \/ \E p \in 1..Len(heap), name \in OpNames : Then(p, name)
    \/ \E p \in 1..Len(heap), d \in Delimiters : Fork(p, d)
    \/ \E p \in 1..Len(heap), j \in JoinerArgs : Merge(p, j)
    \/ \E p \in 1..Len(heap), s \in Inputs : Execute(p, s)
    \/ \E t \in DOMAIN threads : Step(t)

Spec == Init /\ [][Next]_vars

(***************************************************************************)
(* The same client with a wider choice of delimiters: ",", ";" and the     *)
(* empty string, and inputs in which both "," and ";" occur.               *)
(***************************************************************************)
WideDelimiters == {<<",">>, <<";">>, <<>>}
InnerFields == {<<"a", "b">>}
OuterFields == {StrJoin(<<";">>, fs) : fs \in SeqsUpTo(InnerFields, MaxInner)}
\* the empty text, and texts of up to MaxOuter ","-separated fields of which the
\* first holds up to MaxInner ";"-separated fields
WideInputs ==
    {<<>>} \cup {StrJoin(<<",">>, <<head>> \o rest) :
                    head \in OuterFields,
                    rest \in {<<>>} \cup SeqsUpTo(InnerFields, MaxOuter - 1)}

NextWide ==
    \/ \E p \in 1..Len(heap) : Then(p, "reverse")
    \/ \E p \in 1..Len(heap), d \in WideDelimiters : Fork(p, d)
    \/ \E p \in 1..Len(heap), j \in Joiners : Merge(p, StrArg(j))
    \/ \E p \in 1..Len(heap), s \in WideInputs : Execute(p, s)
    \/ \E t \in DOMAIN threads : Step(t)

SpecWide == Init /\ [][NextWide]_vars

\* the interpreter keeps running the threads that can run: some thread that
\* can take a step of execute eventually takes one
SpecFair == Spec /\ WF_vars(\E t \in DOMAIN threads : Step(t))

(***************************************************************************)
(* The registry's metadata (operations/__init__.py) and the parsing of an  *)
(* operation token once it is split into a name and its param=value pairs. *)
(***************************************************************************)
\* get_operations_metadata(): name -> parameter -> type, for the three
\* special entries and the operations the model instantiates
OpsMetadata ==
    [fork |-> [delimiter |-> "str"],
     merge |-> [joiner |-> "str"],
     skip |-> [n |-> "int"],
     reverse |-> [by_line |-> "bool"],
     from_base |-> [base |-> "int"],
     pad_left |-> [c |-> "str"]]

DigitValue(c) ==
    CASE c = "0" -> 0 [] c = "1" -> 1 [] c = "2" -> 2 [] c = "3" -> 3
      [] c = "4" -> 4 [] c = "5" -> 5 [] c = "6" -> 6 [] c = "7" -> 7
      [] c = "8" -> 8 [] c = "9" -> 9

RECURSIVE DigitsValue(_)
DigitsValue(s) ==
    IF s = <<>> THEN 0
    ELSE 10 * DigitsValue(SubSeq(s, 1, Len(s) - 1)) + DigitValue(s[Len(s)])

\* int(v): an optional sign and digits (no blank or underscore is in the alphabet)
IntCast(v) ==
    LET signed == Len(v) > 0 /\ v[1] \in {"-", "+"}
        digits == IF signed THEN Tail(v) ELSE v
    IN  IF ~IsInt(digits) THEN Err("ValueError")
        ELSE Ok(IF signed /\ v[1] = "-" THEN 0 - DigitsValue(digits)
                ELSE DigitsValue(digits))

\* op_metadata.args[param_name].type(param_value)
CastValue(type, v) ==
    CASE type = "str" -> Ok(v)
      [] type = "int" -> IntCast(v)
      [] type = "bool" -> Ok(v # <<>>)

Token(name, params) == [name |-> name, params |-> params]
Param(k, v) == [k |-> k, v |-> v]

\* the last pair of the token that names parameter k
LastParam(params, k) ==
    params[CHOOSE m \in 1..Len(params) :
              /\ params[m].k = k
              /\ \A m2 \in (m + 1)..Len(params) : params[m2].k # k]

\* parse_operation: the OperationConfig of one token, or the ValueError raised
\* (by the first pair, in order, whose name or value is rejected)
ParseOperation(tok, index) ==
    LET params == tok.params
        keys == {params[m].k : m \in 1..Len(params)}
        schema == OpsMetadata[tok.name]
        unknown(m) == params[m].k \notin DOMAIN schema
        uncast(m) == ~CastValue(schema[params[m].k], params[m].v).ok
        bad == {m \in 1..Len(params) : unknown(m) \/ uncast(m)}
        first == CHOOSE m \in bad : \A m2 \in bad : m <= m2
        failure(msg, param) ==
            [ok |-> FALSE, name |-> tok.name, args |-> <<>>, msg |-> msg,
             param |-> param, index |-> index]
    IN  IF tok.name \notin DOMAIN OpsMetadata THEN failure("undefined operation", "")
        ELSE IF bad # {}
        THEN failure(IF unknown(first) THEN "invalid parameter" ELSE "invalid value",
                     params[first].k)
        ELSE [ok |-> TRUE, name |-> tok.name,
              args |-> [k \in keys |-> CastValue(schema[k], LastParam(params, k).v).val],
              msg |-> "", param |-> "", index |-> index]

\* parse_args: every token parsed in order; the first failure is raised
ParsedArgs(tokens) == [m \in 1..Len(tokens) |-> ParseOperation(tokens[m], m)]

FirstFailure(parsed) ==
    CHOOSE m \in 1..Len(parsed) :
        ~parsed[m].ok /\ \A m2 \in 1..(m - 1) : parsed[m2].ok

(***************************************************************************)
(* The driver (main.py).                                                   *)
(***************************************************************************)
Tokens ==
    {Token("fork", <<Param("delimiter", <<",">>)>>),
     Token("merge", <<Param("joiner", <<"|">>)>>),
     Token("skip", <<>>),
     Token("skip", <<Param("n", <<"-", "1">>)>>),
     Token("skip", <<Param("n", <<"0">>)>>),
     Token("skip", <<Param("n", <<"2">>)>>),
     Token("reverse", <<>>),
     Token("from_base", <<>>),
     Token("nope", <<>>),
     Token("reverse", <<Param("foo", <<"1">>)>>),
     Token("skip", <<Param("n", <<"a">>)>>),
     Token("pad_left", <<Param("c", <<"a", "a">>)>>)}

MainInputs == {<<>>, <<"0", "1">>, <<"0", "1", ",", "a">>}

\* a line printed to stderr by main
Message(prefix, name, index, msg) ==
    [prefix |-> prefix, name |-> name, index |-> index, msg |-> msg]

InitMain ==
    /\ argv \in {<<>>} \cup SeqsUpTo(Tokens, MaxConfig)
    /\ data \in MainInputs
    /\ pc = "parse"
    /\ heap = <<>>
    /\ last = NoCall
    /\ threads = NoThreads
    /\ outcome = None
    /\ warnings = 0
    /\ applied = <<>>
    /\ spawned = <<>>
    /\ overtaken = FALSE
    /\ config = None
    /\ pos = 0
    /\ skip = 0
    /\ pipeline = 0
    /\ stdout = None
    /\ stderr = None
    /\ omitted = {}
    /\ classes = <<>>
    /\ visited = 0
    /\ OPERATIONS = {}
    /\ cli = None
    /\ operations = <<>>
    /\ result = None

\* main, lines 92-99: parse_args, stdin.read and the root Pipeline
ParseArgs ==
    /\ pc = "parse"
    /\ LET parsed == ParsedArgs(argv)
       IN  IF \E m \in 1..Len(parsed) : ~parsed[m].ok
           THEN /\ stderr' = Some(Message("Error:", parsed[FirstFailure(parsed)].name,
                                          FirstFailure(parsed),
                                          parsed[FirstFailure(parsed)].msg))
                /\ pc' = "exit"
                /\ UNCHANGED <<heap, applied, spawned, config, pipeline>>
           ELSE /\ config' = Some([m \in 1..Len(parsed) |->
                                     [name |-> parsed[m].name, args |-> parsed[m].args]])
                /\ heap' = <<NewPipeline>>
                /\ applied' = <<0>>
                /\ spawned' = <<0>>
                /\ pipeline' = 1
                /\ pc' = "loop"
                /\ UNCHANGED stderr
    /\ UNCHANGED <<last, threads, outcome, warnings, overtaken, argv, data, pos, skip,
                   stdout, omitted, parser, registry>>

\* the entry the loop is at, and its 1-based number in error messages
Entry == Val(config)[pos + 1]
ErrorIndex(i) == i + 1

InLoop ==
    /\ pc = "loop"
    /\ pos < Len(Val(config))

\* operation.args.get(key, default)
ArgOr(args, key, default) == IF key \in DOMAIN args THEN args[key] ELSE default

\* variant with a seeded fault: the count given to skip is ignored, one entry is passed over
SkipCountOne(args) == 1

\* the value skip takes from a skip entry, line 118
SkipCount(args) == ArgOr(args, "n", 1)

\* variant with a seeded fault: the except clause prints and the loop goes on
AssembledKeepsGoing(name, r) ==
    /\ last' = Call(name, pipeline, <<>>, r)
    /\ IF r.exc # ""
       THEN /\ stderr' = Some(Message("Error at operation", Entry.name,
                                      ErrorIndex(pos), r.exc))
            /\ pos' = pos + 1
            /\ UNCHANGED <<heap, applied, spawned, pipeline, pc>>
       ELSE /\ heap' = r.heap
            /\ applied' = Zeros(r.heap)
            /\ spawned' = Zeros(r.heap)
            /\ pipeline' = r.ret
            /\ pos' = pos + 1
            /\ UNCHANGED <<stderr, pc>>
    /\ UNCHANGED <<threads, outcome, warnings, overtaken, argv, data, config, skip,
                   stdout, omitted, parser, registry>>

\* the loop body's result r of a pipeline call: the except clause or the next entry
Assembled(name, r) ==
    /\ last' = Call(name, pipeline, <<>>, r)
    /\ IF r.exc # ""
       THEN /\ stderr' = Some(Message("Error at operation", Entry.name,
                                      ErrorIndex(pos), r.exc))
            /\ pc' = "exit"
            /\ UNCHANGED <<heap, applied, spawned, pipeline, pos>>
       ELSE /\ heap' = r.heap
            /\ applied' = Zeros(r.heap)
            /\ spawned' = Zeros(r.heap)
            /\ pipeline' = r.ret
            /\ pos' = pos + 1
            /\ UNCHANGED <<stderr, pc>>
    /\ UNCHANGED <<threads, outcome, warnings, overtaken, argv, data, config, skip,
                   stdout, omitted, parser, registry>>

\* lines 102-104: the entry is passed over
SkipEntry ==
    /\ InLoop
    /\ skip > 0
    /\ skip' = skip - 1
    /\ pos' = pos + 1
    /\ omitted' = omitted \cup {pos + 1}
    /\ UNCHANGED <<engine, argv, data, config, pipeline, stdout, stderr, parser, registry>>

\* lines 107-111
MainFork ==
    /\ InLoop
    /\ ~(skip > 0)
    /\ Entry.name = "fork"
    /\ Assembled("fork", PipelineFork(heap, pipeline,
                                      ArgOr(Entry.args, "delimiter", <<"\n">>)))

\* lines 112-116
MainMerge ==
    /\ InLoop
    /\ ~(skip > 0)
    /\ Entry.name = "merge"
    /\ Assembled("merge", PipelineMerge(heap, pipeline,
                                        StrArg(ArgOr(Entry.args, "joiner", <<"\n">>))))

\* lines 117-118
MainSkip ==
    /\ InLoop
    /\ ~(skip > 0)
    /\ Entry.name = "skip"
    /\ skip' = SkipCount(Entry.args)
    /\ pos' = pos + 1
    /\ UNCHANGED <<engine, argv, data, config, pipeline, stdout, stderr, omitted, parser, registry>>

\* ops.create_operation(name, **args): the constructor of _PadLines rejects a
\* pad string that is not one character long; the others keep what they get
CreateOperation(name, args) ==
    IF name = "pad_left" /\ "c" \in DOMAIN args /\ Len(args["c"]) # 1
    THEN Err("ValueError")
    ELSE Ok(OpNode(name))

\* lines 119-120: pipeline.then(ops.create_operation(name, **operation.args))
MainThen ==
    /\ InLoop
    /\ ~(skip > 0)
    /\ Entry.name \notin {"fork", "merge", "skip"}
    /\ Assembled("then", IF CreateOperation(Entry.name, Entry.args).ok
                         THEN PipelineThen(heap, pipeline, Entry.name)
                         ELSE Raised(heap, CreateOperation(Entry.name, Entry.args).exc))

\* variant with a seeded fault: execute is called on the main pipeline
MainExecuteOnRoot ==
    /\ pc = "loop"
    /\ pos = Len(Val(config))
    /\ Invoke([t \in {Main} |-> [state |-> "running", stack |-> <<>>, result |-> None]],
              Main, <<>>, 1, data)
    /\ last' = Call("execute", 1, data, Returned(heap, 0))
    /\ UNCHANGED <<heap, warnings, applied, driver>>

\* line 127: pipeline.execute(data)
MainExecute ==
    /\ pc = "loop"
    /\ pos = Len(Val(config))
    /\ Invoke([t \in {Main} |-> [state |-> "running", stack |-> <<>>, result |-> None]],
              Main, <<>>, pipeline, data)
    /\ last' = Call("execute", pipeline, data, Returned(heap, 0))
    /\ UNCHANGED <<heap, warnings, applied, driver>>

\* lines 127-131: the result is printed, or the exception's message
Report ==
    /\ pc = "done"
    /\ IF Val(outcome).ok
       THEN stdout' = Some(Val(outcome).val) /\ UNCHANGED stderr
       ELSE stderr' = Some(Message("Error:", "", 0, Val(outcome).exc)) /\ UNCHANGED stdout
    /\ pc' = "exit"
    /\ UNCHANGED <<heap, last, threads, outcome, warnings, applied, spawned, overtaken,
                   argv, data, config, pos, skip, pipeline, omitted, parser, registry>>

NextMain ==
    \/ ParseArgs
    \/ SkipEntry
    \/ MainFork
    \/ MainMerge
    \/ MainSkip
    \/ MainThen
    \/ MainExecute
    \/ \E t \in DOMAIN threads : Step(t)
    \/ Report

SpecMain == InitMain /\ [][NextMain]_vars

(***************************************************************************)
(* What the specification says a node list computes, for stating the       *)
(* claims: a value <<v>>, or None when the run fails.                      *)
(***************************************************************************)
NonEmptyPieces(s, d) == SelectSeq(StrSplit(s, d), LAMBDA x : Len(x) > 0)

Merged(g) == heap[g].cls = "ParallelPipeline" /\ heap[g].joiner # None
Unmerged(g) == heap[g].cls = "ParallelPipeline" /\ heap[g].joiner = None
IsGroup(g) == heap[g].cls = "ParallelPipeline"
Delim(g) == Val(heap[g].delimiter)
Splits(g, s) == Delim(g) # <<>> /\ Contains(s, Delim(g))

RECURSIVE SeqRun(_, _, _), GroupRun(_, _)
\* the nodes k, k+1, ... of p's list applied in turn, starting from s
SeqRun(p, k, s) ==
    IF k > Len(Nodes(p)) THEN Some(s)
    ELSE LET node == Nodes(p)[k]
             out == IF node.kind = "op"
                    THEN (IF ApplyOp(node.name, s).ok
                          THEN Some(ApplyOp(node.name, s).val) ELSE None)
                    ELSE GroupRun(node.ref, s)
         IN  IF out = None THEN None ELSE SeqRun(p, k + 1, Val(out))

\* the group g run on s: split, each non-empty piece through the list, joined
GroupRun(g, s) ==
    IF ~Merged(g) \/ Delim(g) = <<>> THEN None
    ELSE IF ~Contains(s, Delim(g)) THEN SeqRun(g, 1, s)
    ELSE LET pieces == NonEmptyPieces(s, Delim(g))
             outs == [k \in 1..Len(pieces) |-> SeqRun(g, 1, pieces[k])]
         IN  IF \E k \in 1..Len(outs) : outs[k] = None THEN None
             ELSE Some(StrJoin(Val(heap[g].joiner),
                               [k \in 1..Len(outs) |-> Val(outs[k])]))

\* the frames of every thread, as <<thread, depth>>
Frames == UNION {{<<t, m>> : m \in 1..Len(threads[t].stack)} : t \in DOMAIN threads}
FrameAt(x) == threads[x[1]].stack[x[2]]
ExecFrames == {x \in Frames : FrameAt(x).kind = "exec"}
ParFrames == {x \in Frames : FrameAt(x).kind = "par"}

\* the top-level execute call the client made, once it is made
TopCall == last.call = "execute"
TopDone == TopCall /\ pc \in {"done", "exit"}

\* what node j of frame f was given, and what it gave back
NodeInput(f, j) == f.log[j].input
NodeOutput(f, j) == IF j < Len(f.log) THEN f.log[j + 1].input ELSE f.buffer

\* the nodes of frame f that have returned
Passed(f) == {j \in 1..Len(f.log) : j < f.i}

\* the calls of a group's execute that have returned and whose result is in
\* the state: the top-level call, and the group nodes a loop has gone past
ReturnedCalls ==
    (IF TopDone /\ Val(outcome).ok /\ IsGroup(last.target)
     THEN {[pipe |-> last.target, input |-> last.arg, output |-> Val(outcome).val]}
     ELSE {})
    \cup
    UNION {{[pipe |-> Nodes(FrameAt(x).pipe)[j].ref,
             input |-> NodeInput(FrameAt(x), j),
             output |-> NodeOutput(FrameAt(x), j)] :
                j \in {m \in Passed(FrameAt(x)) : Nodes(FrameAt(x).pipe)[m].kind = "pipe"}} :
           x \in ExecFrames}

(***************************************************************************)
(* C1.  A merged group executed on an input that contains its delimiter    *)
(* returns the branch outputs joined by the joiner in the left-to-right    *)
(* order of the substrings: branch k's output is the k-th item, whatever   *)
(* order the branch threads started, ran and ended in.                     *)
(***************************************************************************)
BranchOutputs(g, s) ==
    [k \in 1..Len(NonEmptyPieces(s, Delim(g))) |->
        SeqRun(g, 1, NonEmptyPieces(s, Delim(g))[k])]

C1_MergeKeepsSubstringOrder ==
    /\ \A c \in ReturnedCalls :
          Splits(c.pipe, c.input) =>
            /\ \A k \in 1..Len(BranchOutputs(c.pipe, c.input)) :
                  BranchOutputs(c.pipe, c.input)[k] # None
            /\ c.output = StrJoin(Val(heap[c.pipe].joiner),
                                  [k \in 1..Len(BranchOutputs(c.pipe, c.input)) |->
                                      Val(BranchOutputs(c.pipe, c.input)[k])])
    /\ (TopDone /\ Merged(last.target) /\ Splits(last.target, last.arg)
          /\ \A k \in 1..Len(BranchOutputs(last.target, last.arg)) :
                BranchOutputs(last.target, last.arg)[k] # None)
        => Val(outcome).ok

\* a split group has returned three branch outputs, not all equal and changed by
\* the branch, in substring order although a later branch ended before an
\* earlier one
C1_Witness ==
    /\ overtaken
    /\ \E c \in ReturnedCalls :
          /\ Splits(c.pipe, c.input)
          /\ Len(BranchOutputs(c.pipe, c.input)) = 3
          /\ BranchOutputs(c.pipe, c.input)[1] # BranchOutputs(c.pipe, c.input)[3]
          /\ Nodes(c.pipe) # <<>>
          /\ c.output # StrJoin(Val(heap[c.pipe].joiner), NonEmptyPieces(c.input, Delim(c.pipe)))

(***************************************************************************)
(* C2.  Pipeline.execute on an empty node list returns its input unchanged *)
(* and emits one warning: for the root pipeline, for a merged group whose  *)
(* delimiter is absent, and for each branch pipeline of a split group.     *)
(***************************************************************************)
C2_EmptyPipelineIsIdentity ==
    /\ \A x \in ExecFrames :
          Nodes(FrameAt(x).pipe) = <<>> =>
             FrameAt(x).buffer = FrameAt(x).input /\ FrameAt(x).log = <<>>
    /\ (TopDone /\ Nodes(last.target) = <<>>
          /\ (~IsGroup(last.target)
                \/ (Merged(last.target) /\ ~Contains(last.arg, Delim(last.target)))))
        => (outcome = Some(Ok(last.arg)) /\ warnings = 1)
    /\ (TopDone /\ Nodes(last.target) = <<>> /\ Merged(last.target)
          /\ Splits(last.target, last.arg))
        => /\ outcome = Some(Ok(StrJoin(Val(heap[last.target].joiner),
                                        NonEmptyPieces(last.arg, Delim(last.target)))))
           /\ warnings = Len(NonEmptyPieces(last.arg, Delim(last.target)))
    /\ \A c \in ReturnedCalls :
          (Nodes(c.pipe) = <<>> /\ ~Splits(c.pipe, c.input)) =>
             (c.output = c.input /\ warnings >= 1)

\* the empty root pipeline has returned a non-empty input
C2_Witness ==
    /\ TopDone
    /\ ~IsGroup(last.target)
    /\ Nodes(last.target) = <<>>
    /\ last.arg # <<>>
    /\ outcome = Some(Ok(last.arg))
    /\ warnings = 1

(***************************************************************************)
(* C3.  Pipeline.execute applies the nodes of its list once each, in list  *)
(* order (then and fork append, so list order is call order): node 1 is    *)
(* given the input, node j+1 the output of node j, and the result is the   *)
(* last node's output.                                                     *)
(***************************************************************************)
OpCount(p) == Cardinality({j \in 1..Len(Nodes(p)) : Nodes(p)[j].kind = "op"})

C3_NodesRunOnceInListOrder ==
    /\ \A x \in ExecFrames :
          LET f == FrameAt(x)
          IN  /\ Len(f.log) \in {f.i - 1, f.i}
              /\ Len(f.log) <= Len(Nodes(f.pipe))
              /\ \A j \in 1..Len(f.log) : f.log[j].node = j
              /\ IF f.log = <<>> THEN f.buffer = f.input ELSE f.log[1].input = f.input
              /\ \A j \in Passed(f) :
                    IF Nodes(f.pipe)[j].kind = "op"
                    THEN ApplyOp(Nodes(f.pipe)[j].name, NodeInput(f, j))
                            = Ok(NodeOutput(f, j))
                    ELSE GroupRun(Nodes(f.pipe)[j].ref, NodeInput(f, j))
                            = Some(NodeOutput(f, j))
    /\ (TopDone /\ ~IsGroup(last.target)) =>
          /\ Val(outcome).ok <=> SeqRun(last.target, 1, last.arg) # None
          /\ Val(outcome).ok =>
                /\ Some(Val(outcome).val) = SeqRun(last.target, 1, last.arg)
                /\ applied[last.target] = OpCount(last.target)
    /\ (last.call = "then" /\ pc = "build") =>
          Nodes(last.target)[Len(Nodes(last.target))] = OpNode(last.arg[1])
    /\ (last.call = "fork" /\ pc = "build") =>
          Nodes(last.target)[Len(Nodes(last.target))] = PipeNode(Len(heap))

\* a pipeline of two operations whose order shows in the result has returned
C3_Witness ==
    /\ TopDone
    /\ ~IsGroup(last.target)
    /\ Len(Nodes(last.target)) = 2
    /\ Nodes(last.target)[1].name = "reverse"
    /\ Nodes(last.target)[2].name = "from_base"
    /\ last.arg = <<"0", "1">>
    /\ outcome = Some(Ok(<<"1", "0">>))

(***************************************************************************)
(* C4.  A merged group whose delimiter does not occur in the input gives   *)
(* what its node list gives when run once, in sequence, on the whole       *)
(* input: it does not split, creates no thread and adds no joiner.         *)
(***************************************************************************)
C4_AbsentDelimiterRunsOnce ==
    /\ \A c \in ReturnedCalls :
          (Merged(c.pipe) /\ ~Contains(c.input, Delim(c.pipe))) =>
             Some(c.output) = SeqRun(c.pipe, 1, c.input)
    /\ \A x \in ParFrames : Contains(FrameAt(x).input, Delim(FrameAt(x).pipe))
    /\ (TopCall /\ Merged(last.target) /\ ~Contains(last.arg, Delim(last.target))) =>
          /\ spawned[last.target] = 0
          /\ TopDone => (Val(outcome).ok <=> SeqRun(last.target, 1, last.arg) # None)

\* a merged group with a non-empty joiner has run two operations on an input
\* without its delimiter and returned what they give
C4_Witness ==
    /\ TopDone
    /\ Merged(last.target)
    /\ heap[last.target].joiner # Some(<<>>)
    /\ ~Contains(last.arg, Delim(last.target))
    /\ Len(Nodes(last.target)) = 2
    /\ applied[last.target] = 2
    /\ Val(outcome).ok
    /\ Val(outcome).val # last.arg

(***************************************************************************)
(* C5.  A split drops the empty substrings (leading, trailing, consecutive *)
(* delimiters): one branch is created per non-empty substring, in order.   *)
(***************************************************************************)
C5_EmptySubstringsDropped ==
    /\ \A x \in ParFrames :
          LET f == FrameAt(x)
              pieces == NonEmptyPieces(f.input, Delim(f.pipe))
          IN  /\ f.n = Len(pieces)
              /\ \A k \in 1..f.n :
                    /\ Append(x[1], k) \in DOMAIN threads
                    /\ threads[Append(x[1], k)].stack # <<>> =>
                          threads[Append(x[1], k)].stack[1].input = pieces[k]
              /\ \A k \in (f.n + 1)..(f.n + 2) : Append(x[1], k) \notin DOMAIN threads
    /\ (TopCall /\ Merged(last.target) /\ Splits(last.target, last.arg)) =>
          spawned[last.target] = Len(NonEmptyPieces(last.arg, Delim(last.target)))

\* "a,,01" is split into two branches, given "a" and "01"
C5_Witness ==
    \E x \in ParFrames :
        /\ FrameAt(x).input = <<"a", ",", ",", "0", "1">>
        /\ FrameAt(x).n = 2
        /\ threads[Append(x[1], 1)].stack # <<>>
        /\ threads[Append(x[1], 1)].stack[1].input = <<"a">>
        /\ threads[Append(x[1], 2)].stack # <<>>
        /\ threads[Append(x[1], 2)].stack[1].input = <<"0", "1">>

(***************************************************************************)
(* C6.  merge on a group that is already merged raises RuntimeError and    *)
(* leaves the joiner (and every object) as it was, whatever the new joiner *)
(* and also when the first joiner is the empty string; a joiner, once set, *)
(* never changes.                                                          *)
(***************************************************************************)
C6_SecondMergeRaises ==
    [][\A p \in 1..Len(heap) :
          (IsGroup(p) /\ heap[p].joiner # None) =>
             /\ heap'[p].joiner = heap[p].joiner
             /\ \A j \in JoinerArgs :
                   Merge(p, j) => (last'.exc = "RuntimeError" /\ heap' = heap)]_vars

\* the last call was a merge on a group merged with "" and it raised RuntimeError
C6_Witness ==
    /\ last.call = "merge"
    /\ last.exc = "RuntimeError"
    /\ IsGroup(last.target)
    /\ heap[last.target].joiner = Some(<<>>)

(***************************************************************************)
(* C7.  execute on a group that has not been merged raises RuntimeError    *)
(* before anything else, whatever the input: none of its operations is     *)
(* applied, no thread is created, and the call never returns a value.      *)
(***************************************************************************)
C7_UnmergedGroupRaises ==
    /\ \A g \in 1..Len(heap) :
          Unmerged(g) =>
             /\ applied[g] = 0
             /\ spawned[g] = 0
             /\ \A x \in Frames : FrameAt(x).pipe # g
    /\ \A x \in ExecFrames :
          \A j \in 1..Len(FrameAt(x).log) :
             Nodes(FrameAt(x).pipe)[j].kind = "pipe" =>
                Merged(Nodes(FrameAt(x).pipe)[j].ref)
    /\ (TopCall /\ Unmerged(last.target)) =>
          /\ outcome = Some(Err("RuntimeError"))
          /\ threads = NoThreads
          /\ \A p \in 1..Len(heap) : applied[p] = 0 /\ spawned[p] = 0

\* an unmerged group holding an operation was executed on a non-empty input
\* that has no delimiter in it, and the call raised
C7_Witness ==
    /\ TopDone
    /\ Unmerged(last.target)
    /\ Nodes(last.target) # <<>>
    /\ Nodes(last.target)[1].kind = "op"
    /\ last.arg # <<>>
    /\ ~Contains(last.arg, Delim(last.target))
    /\ outcome = Some(Err("RuntimeError"))

(***************************************************************************)
(* C8.  In the driver, a skip entry at position i that is itself processed *)
(* and whose count n is >= 0 makes the loop pass over exactly the entries  *)
(* i+1 .. min(i+n, last), whatever they are (a passed-over skip entry has  *)
(* no effect); the entry i+n+1 is processed; no other entry is passed      *)
(* over; only the processed entries act on the pipeline; and an error of a *)
(* processed entry is reported with the entry's own name and its 1-based   *)
(* position in the whole list.                                             *)
(***************************************************************************)
SkipN(e) == IF "n" \in DOMAIN e.args THEN e.args["n"] ELSE 1
Min(a, b) == IF a <= b THEN a ELSE b

\* the processed entries among the first pos whose name is in names
Processed(names) ==
    {m \in 1..pos : m \notin omitted /\ Val(config)[m].name \in names}

C8_SkipOmitsNextEntries ==
    config # None =>
       /\ omitted \subseteq 1..pos
       /\ \A i \in 1..pos :
             (Val(config)[i].name = "skip" /\ i \notin omitted
                /\ SkipN(Val(config)[i]) >= 0) =>
                /\ \A m \in (i + 1)..Min(i + SkipN(Val(config)[i]), pos) : m \in omitted
                /\ i + SkipN(Val(config)[i]) + 1 <= pos =>
                      i + SkipN(Val(config)[i]) + 1 \notin omitted
       /\ \A m \in omitted :
             \E i \in 1..(m - 1) :
                /\ Val(config)[i].name = "skip"
                /\ i \notin omitted
                /\ SkipN(Val(config)[i]) >= 1
                /\ m <= i + SkipN(Val(config)[i])
       /\ Len(heap) - 1 = Cardinality(Processed({"fork"}))
       /\ Cardinality({g \in 1..Len(heap) : Merged(g)}) = Cardinality(Processed({"merge"}))
       /\ Size(heap) - (Len(heap) - 1) = Cardinality(Processed(OpNames))
       /\ (stderr # None /\ Val(stderr).prefix = "Error at operation") =>
             /\ Val(stderr).index = pos + 1
             /\ pos + 1 \notin omitted
             /\ Val(stderr).name = Val(config)[pos + 1].name

\* skip[n=2] at 1 passed over a skip entry at 2 and entry 3; entry 4, a merge
\* on the root pipeline, was processed and its error is reported as #4
C8_Witness ==
    /\ config # None
    /\ Len(Val(config)) = 4
    /\ Val(config)[1].name = "skip"
    /\ SkipN(Val(config)[1]) = 2
    /\ Val(config)[2].name = "skip"
    /\ omitted = {2, 3}
    /\ stderr # None
    /\ Val(stderr).prefix = "Error at operation"
    /\ Val(stderr).index = 4
    /\ Val(stderr).name = "merge"

(***************************************************************************)
(* C9.  A skip entry whose count n is negative is rejected as a            *)
(* configuration error: the pipeline is never executed, no operation runs, *)
(* nothing is printed to stdout and the run ends with an error message.    *)
(***************************************************************************)
NegativeSkip(tok) ==
    /\ tok.name = "skip"
    /\ \E m \in 1..Len(tok.params) :
          /\ tok.params[m].k = "n"
          /\ Len(tok.params[m].v) > 1
          /\ tok.params[m].v[1] = "-"

C9_NegativeSkipRejected ==
    (\E m \in 1..Len(argv) : NegativeSkip(argv[m])) =>
       /\ last.call # "execute"
       /\ \A p \in 1..Len(heap) : applied[p] = 0
       /\ threads = NoThreads
       /\ stdout = None
       /\ pc = "exit" => stderr # None

(***************************************************************************)
(* C10.  When an operation raises inside one branch of a split group, only *)
(* that branch is aborted: a branch ends without a result only if its own  *)
(* run of the node list on its own substring fails, every other branch     *)
(* ends with the whole node list applied to its substring, and the merge   *)
(* waits for all of them.  The enclosing execute call then fails: no call  *)
(* of a split group one of whose branches fails ever returns a value.      *)
(***************************************************************************)
C10_BranchFailureFailsCall ==
    /\ \A x \in ParFrames :
          LET f == FrameAt(x)
              pieces == NonEmptyPieces(f.input, Delim(f.pipe))
          IN  \A k \in 1..f.n :
                 LET c == threads[Append(x[1], k)]
                 IN  /\ c.state = "failed" => SeqRun(f.pipe, 1, pieces[k]) = None
                     /\ c.state = "done" =>
                           c.result # None /\ c.result = SeqRun(f.pipe, 1, pieces[k])
                     /\ (f.phase = "join" /\ k < f.i) => c.state \in {"done", "failed"}
    /\ (TopDone /\ Merged(last.target) /\ Splits(last.target, last.arg)
          /\ \E k \in 1..Len(BranchOutputs(last.target, last.arg)) :
                BranchOutputs(last.target, last.arg)[k] = None)
        => (~Val(outcome).ok /\ Val(outcome).val = <<>>)
    /\ \A c \in ReturnedCalls :
          Splits(c.pipe, c.input) =>
             \A k \in 1..Len(BranchOutputs(c.pipe, c.input)) :
                SeqRun(c.pipe, 1, NonEmptyPieces(c.input, Delim(c.pipe))[k]) # None

\* every branch of a split is joined: the first ended by an exception, the
\* second has run the node list on its substring and holds a changed result
C10_Witness ==
    \E x \in ParFrames :
        /\ FrameAt(x).phase = "join"
        /\ FrameAt(x).i > FrameAt(x).n
        /\ FrameAt(x).n >= 2
        /\ threads[Append(x[1], 1)].state = "failed"
        /\ threads[Append(x[1], 2)].state = "done"
        /\ threads[Append(x[1], 2)].result
              # Some(NonEmptyPieces(FrameAt(x).input, Delim(FrameAt(x).pipe))[2])

(***************************************************************************)
(* C11.  When branches of a split group fail, the enclosing execute fails  *)
(* with the error of the failing branch that has the lowest branch index,  *)
(* whatever order the branches failed or ended in.                         *)
(***************************************************************************)
RECURSIVE SeqExc(_, _, _), GroupExc(_, _)
\* the exception that ends the run of nodes k, k+1, ... of p on s, "" if none
SeqExc(p, k, s) ==
    IF k > Len(Nodes(p)) THEN ""
    ELSE LET node == Nodes(p)[k]
             exc == IF node.kind = "op" THEN ApplyOp(node.name, s).exc
                    ELSE GroupExc(node.ref, s)
             out == IF node.kind = "op" THEN Some(ApplyOp(node.name, s).val)
                    ELSE GroupRun(node.ref, s)
         IN  IF exc # "" THEN exc ELSE SeqExc(p, k + 1, Val(out))

\* the exception the claim gives to group g run on s: that of the first failing branch
GroupExc(g, s) ==
    IF ~Merged(g) THEN "RuntimeError"
    ELSE IF ~Contains(s, Delim(g)) THEN SeqExc(g, 1, s)
    ELSE LET pieces == NonEmptyPieces(s, Delim(g))
             failing == {k \in 1..Len(pieces) : SeqExc(g, 1, pieces[k]) # ""}
         IN  IF failing = {} THEN ""
             ELSE SeqExc(g, 1, pieces[CHOOSE k \in failing : \A m \in failing : k <= m])

C11_LowestFailingBranchSurfaced ==
    (TopDone /\ Merged(last.target) /\ Splits(last.target, last.arg)
       /\ Cardinality({k \in 1..Len(BranchOutputs(last.target, last.arg)) :
                          BranchOutputs(last.target, last.arg)[k] = None}) >= 2)
     => Val(outcome).exc = GroupExc(last.target, last.arg)

(***************************************************************************)
(* C12.  An assembly-time error (unknown operation, unknown parameter, bad *)
(* cast, a constructor that rejects its arguments, merge with no open      *)
(* fork) ends the run before any operation is applied and with nothing on  *)
(* stdout: the driver never calls execute.  No operation is applied before *)
(* the whole list is assembled.                                            *)
(***************************************************************************)
\* a token that parse_operation has to reject
Rejected(tok) ==
    \/ tok.name \notin {"fork", "merge", "skip", "reverse", "from_base", "pad_left"}
    \/ \E m \in 1..Len(tok.params) :
          \/ tok.name = "reverse" /\ tok.params[m].k # "by_line"
          \/ tok.name = "skip" /\ tok.params[m].k # "n"
          \/ tok.name = "skip" /\ \E k \in 1..Len(tok.params[m].v) :
                                      ~IsDigit(tok.params[m].v[k]) /\ tok.params[m].v[k] # "-"

NothingRan ==
    /\ \A p \in 1..Len(heap) : applied[p] = 0 /\ spawned[p] = 0
    /\ threads = NoThreads
    /\ outcome = None
    /\ last.call # "execute"
    /\ stdout = None

C12_AssemblyErrorsRunNothing ==
    /\ pc \in {"parse", "loop"} => NothingRan
    /\ (\E m \in 1..Len(argv) : Rejected(argv[m])) =>
          /\ NothingRan
          /\ config = None
          /\ pc = "exit" => (stderr # None /\ Val(stderr).prefix = "Error:")
    /\ (stderr # None /\ Val(stderr).prefix = "Error at operation") =>
          (NothingRan /\ pc = "exit")

\* the constructor of the third entry rejected its argument after a fork and an
\* operation had been assembled, with a non-empty text on stdin
C12_Witness ==
    /\ pc = "exit"
    /\ data # <<>>
    /\ stderr = Some(Message("Error at operation", "pad_left", 3, "ValueError"))
    /\ Len(heap) = 2
    /\ Nodes(2) # <<>>
    /\ NothingRan

(***************************************************************************)
(* C13.  A failure raised by an operation's apply while the pipeline runs  *)
(* is reported on stderr as "Error at operation '<name>' (#<index>):       *)
(* <msg>", with the name of the failing operation and its 1-based position *)
(* in the list.  (In the model ValueError at run time comes from           *)
(* from_base.apply only.)                                                  *)
(***************************************************************************)
C13_RuntimeFailureNamesStep ==
    (pc = "exit" /\ outcome # None /\ ~Val(outcome).ok
       /\ Val(outcome).exc = "ValueError")
     => /\ stderr # None
        /\ Val(stderr).prefix = "Error at operation"
        /\ Val(stderr).name = "from_base"
        /\ Val(stderr).index \in {m \in 1..Len(argv) : argv[m].name = "from_base"}
        /\ Val(stderr).msg = "ValueError"

(***************************************************************************)
(* C14.  An exception raised by an operation's apply in a sequential       *)
(* pipeline aborts that execute call: the failing operation has been       *)
(* applied once, the operations before it once each, no node after it is   *)
(* applied, and execute raises that exception instead of returning.        *)
(***************************************************************************)
RECURSIVE RunTo(_, _, _)
\* the buffer after the nodes 1..j of p's list, starting from s; None once one fails
RunTo(p, j, s) ==
    IF j = 0 THEN Some(s)
    ELSE LET before == RunTo(p, j - 1, s)
             node == Nodes(p)[j]
         IN  IF before = None THEN None
             ELSE IF node.kind = "pipe" THEN GroupRun(node.ref, Val(before))
             ELSE IF ApplyOp(node.name, Val(before)).ok
             THEN Some(ApplyOp(node.name, Val(before)).val)
             ELSE None

\* the first node of p's list that fails on input s
FailAt(p, s) ==
    CHOOSE j \in 1..Len(Nodes(p)) : RunTo(p, j - 1, s) # None /\ RunTo(p, j, s) = None

C14_ApplyFailureAborts ==
    /\ \A x \in ExecFrames :
          \A j \in 1..(Len(FrameAt(x).log) - 1) :
             Nodes(FrameAt(x).pipe)[j].kind = "op" =>
                ApplyOp(Nodes(FrameAt(x).pipe)[j].name, FrameAt(x).log[j].input).ok
    /\ (TopDone /\ ~IsGroup(last.target) /\ SeqRun(last.target, 1, last.arg) = None) =>
          /\ ~Val(outcome).ok
          /\ Val(outcome).val = <<>>
          /\ threads = NoThreads
          /\ Nodes(last.target)[FailAt(last.target, last.arg)].kind = "op" =>
                /\ applied[last.target] =
                      Cardinality({m \in 1..FailAt(last.target, last.arg) :
                                      Nodes(last.target)[m].kind = "op"})
                /\ Val(outcome).exc =
                      ApplyOp(Nodes(last.target)[FailAt(last.target, last.arg)].name,
                              Val(RunTo(last.target, FailAt(last.target, last.arg) - 1,
                                        last.arg))).exc

\* reverse, from_base, reverse run on "a": from_base raised, the last was not applied
C14_Witness ==
    /\ TopDone
    /\ ~IsGroup(last.target)
    /\ Len(Nodes(last.target)) = 3
    /\ \A m \in 1..3 : Nodes(last.target)[m].kind = "op"
    /\ Nodes(last.target)[2].name = "from_base"
    /\ last.arg = <<"a">>
    /\ outcome = Some(Err("ValueError"))
    /\ applied[last.target] = 2

(***************************************************************************)
(* The parser (config.py).  A token is the text of one positional          *)
(* argument, a sequence of characters.  The registry is looked up by the   *)
(* characters of a name: Spelling gives the characters of the keys of      *)
(* OpsMetadata.                                                            *)
(***************************************************************************)
Spelling ==
    [fork |-> <<"f", "o", "r", "k">>,
     merge |-> <<"m", "e", "r", "g", "e">>,
     skip |-> <<"s", "k", "i", "p">>,
     reverse |-> <<"r", "e", "v", "e", "r", "s", "e">>,
     from_base |-> <<"f", "r", "o", "m", "_", "b", "a", "s", "e">>,
     pad_left |-> <<"p", "a", "d", "_", "l", "e", "f", "t">>,
     delimiter |-> <<"d", "e", "l", "i", "m", "i", "t", "e", "r">>,
     joiner |-> <<"j", "o", "i", "n", "e", "r">>,
     n |-> <<"n">>,
     by_line |-> <<"b", "y", "_", "l", "i", "n", "e">>,
     base |-> <<"b", "a", "s", "e">>,
     c |-> <<"c">>]

\* name in ops_metadata
Registered(name) == \E w \in DOMAIN OpsMetadata : Spelling[w] = name

\* variant with a seeded fault: the parameter is looked up in every operation
SchemaAnyOp(name) ==
    [k \in {Spelling[q] : q \in UNION {DOMAIN OpsMetadata[w] : w \in DOMAIN OpsMetadata}} |->
        LET w == CHOOSE x \in DOMAIN OpsMetadata : \E q \in DOMAIN OpsMetadata[x] : Spelling[q] = k
        IN  OpsMetadata[w][CHOOSE q \in DOMAIN OpsMetadata[w] : Spelling[q] = k]]

\* ops_metadata[name].args, as parameter name -> type
Schema(name) ==
    LET w == CHOOSE x \in DOMAIN OpsMetadata : Spelling[x] = name
    IN  [k \in {Spelling[q] : q \in DOMAIN OpsMetadata[w]} |->
            OpsMetadata[w][CHOOSE q \in DOMAIN OpsMetadata[w] : Spelling[q] = k]]

Lower ==
    {"a", "b", "c", "d", "e", "f", "g", "h", "i", "j", "k", "l", "m",
     "n", "o", "p", "q", "r", "s", "t", "u", "v", "w", "x", "y", "z"}
Upper ==
    {"A", "B", "C", "D", "E", "F", "G", "H", "I", "J", "K", "L", "M",
     "N", "O", "P", "Q", "R", "S", "T", "U", "V", "W", "X", "Y", "Z"}

\* the regex class \w
IsWordChar(ch) == ch \in Lower \cup Upper \cup {"_"} \/ IsDigit(ch)

\* the length of the longest prefix of s that \w+ can take
WordPrefixLen(s) ==
    CHOOSE m \in 0..Len(s) :
        /\ \A k \in 1..m : IsWordChar(s[k])
        /\ m = Len(s) \/ ~IsWordChar(s[m + 1])

\* the group params, (?:\w+=.*?)+(?:,(?:\w+=.*?)+)* : a word, '=', then any
\* characters but a line break
MatchesParams(p) ==
    /\ WordPrefixLen(p) >= 1
    /\ WordPrefixLen(p) < Len(p)
    /\ p[WordPrefixLen(p) + 1] = "="
    /\ \A k \in 1..Len(p) : p[k] # "\n"

NoMatch == [matched |-> FALSE, name |-> <<>>, params |-> None]

\* _OPERATION_CFG_REGEX.fullmatch(raw): the groups name and params
FullMatch(raw) ==
    LET m == WordPrefixLen(raw)
        p == SubSeq(raw, m + 2, Len(raw) - 1)
    IN  IF m = 0 THEN NoMatch
        ELSE IF m = Len(raw)
        THEN [matched |-> TRUE, name |-> raw, params |-> None]
        ELSE IF Len(raw) < m + 2 \/ raw[m + 1] # "[" \/ raw[Len(raw)] # "]" THEN NoMatch
        ELSE IF p = <<>>
        THEN [matched |-> TRUE, name |-> SubSeq(raw, 1, m), params |-> None]
        ELSE IF MatchesParams(p)
        THEN [matched |-> TRUE, name |-> SubSeq(raw, 1, m), params |-> Some(p)]
        ELSE NoMatch

\* variant with a seeded fault: every comma separates, escaped or not
SplitEveryComma(p) == StrSplit(p, <<",">>)

RECURSIVE SplitUnescaped(_)
\* re.split(r'(?<!\\),', p): split at the commas not preceded by a backslash
SplitUnescaped(p) ==
    LET seps == {k \in 1..Len(p) : p[k] = "," /\ (k = 1 \/ p[k - 1] # "\\")}
        first == CHOOSE k \in seps : \A k2 \in seps : k <= k2
    IN  IF seps = {} THEN <<p>>
        ELSE <<SubSeq(p, 1, first - 1)>> \o SplitUnescaped(SubSeq(p, first + 1, Len(p)))

RECURSIVE Unescape(_)
\* raw_param.replace(r'\,', ',')
Unescape(s) ==
    IF s = <<>> THEN <<>>
    ELSE IF Len(s) >= 2 /\ s[1] = "\\" /\ s[2] = ","
    THEN <<",">> \o Unescape(SubSeq(s, 3, Len(s)))
    ELSE <<s[1]>> \o Unescape(Tail(s))

\* the position of the first '=' of s, 0 when there is none
FirstEquals(s) ==
    IF \A k \in 1..Len(s) : s[k] # "=" THEN 0
    ELSE CHOOSE k \in 1..Len(s) : s[k] = "=" /\ \A k2 \in 1..(k - 1) : s[k2] # "="

\* split_param once the escapes are removed: raw_param.split('=', 1)
SplitParam(u) ==
    [k |-> SubSeq(u, 1, FirstEquals(u) - 1), v |-> SubSeq(u, FirstEquals(u) + 1, Len(u))]

\* a ValueError raised by the parser, with what its message names
Failure(msg, name, param, value, index) ==
    [ok |-> FALSE, exc |-> "ValueError", msg |-> msg, name |-> name,
     param |-> param, value |-> value, index |-> index]

\* an OperationConfig
OperationConfig(name, args) == [ok |-> TRUE, name |-> name, args |-> args]

\* the smallest element of a non-empty set of numbers
Least(S) == CHOOSE m \in S : \A m2 \in S : m <= m2

\* _parse_cli_operation: the OperationConfig of a token, or the ValueError of
\* the first parameter, in order, that split_param or cast_value rejects
ParseCliOperation(raw, index) ==
    LET m == FullMatch(raw)
        raw_params == IF m.params = None THEN <<>> ELSE SplitUnescaped(Val(m.params))
        text(j) == Unescape(raw_params[j])
        pair(j) == SplitParam(text(j))
        schema == Schema(m.name)
        status(j) ==
            IF FirstEquals(text(j)) = 0 THEN "malformed parameter"
            ELSE IF pair(j).k \notin DOMAIN schema THEN "invalid parameter"
            ELSE IF ~CastValue(schema[pair(j).k], pair(j).v).ok THEN "invalid value"
            ELSE ""
        bad == {j \in 1..Len(raw_params) : status(j) # ""}
        keys == {pair(j).k : j \in 1..Len(raw_params)}
        final(k) == CHOOSE j \in 1..Len(raw_params) :
                       /\ pair(j).k = k
                       /\ \A j2 \in (j + 1)..Len(raw_params) : pair(j2).k # k
    IN  IF ~m.matched
        THEN Failure("invalid operation definition", <<>>, <<>>, raw, index)
        ELSE IF ~Registered(m.name)
        THEN Failure("undefined operation", m.name, <<>>, <<>>, index)
        ELSE IF bad # {}
        THEN (IF status(Least(bad)) = "malformed parameter"
              THEN Failure("malformed parameter", m.name, text(Least(bad)), <<>>, index)
              ELSE Failure(status(Least(bad)), m.name, pair(Least(bad)).k,
                           IF status(Least(bad)) = "invalid value"
                           THEN pair(Least(bad)).v ELSE <<>>,
                           index))
        ELSE OperationConfig(m.name,
                [k \in keys |-> CastValue(schema[k], pair(final(k)).v).val])

\* JSON values of a configuration file
JsonStr(s) == [type |-> "str", val |-> s]
\* a JSON number, held as its decimal digits (no sign, no leading zero)
JsonInt(digits) == [type |-> "int", val |-> digits]

\* ops_metadata[op_name].args[param_name].type(param_value) on a JSON value:
\* str(i) of an int is its digits, int(i) its value, bool(i) is i != 0
CastJson(type, jv) ==
    CASE type = "str" -> Ok(jv.val)
      [] type = "int" -> IntCast(jv.val)
      [] type = "bool" -> Ok(IF jv.type = "str" THEN jv.val # <<>>
                             ELSE DigitsValue(jv.val) # 0)

\* an entry of the array "operations": each key may be missing
JsonEntry(name, params) == [name |-> name, params |-> params]

\* _load_config, one turn of the loop (lines 73-80): entry i of the array
LoadEntry(entry, index) ==
    LET name == Val(entry.name)
        params == Val(entry.params)
        schema == Schema(name)
        status(j) ==
            IF params[j].k \notin DOMAIN schema THEN "invalid parameter"
            ELSE IF ~CastJson(schema[params[j].k], params[j].v).ok THEN "invalid value"
            ELSE ""
        bad == {j \in 1..Len(params) : status(j) # ""}
        at(k) == CHOOSE j \in 1..Len(params) : params[j].k = k
    IN  IF entry.name = None
        THEN Failure("malformed configuration file", <<>>, <<>>, <<>>, 0)
        ELSE IF ~Registered(name)
        THEN Failure("undefined operation", name, <<>>, <<>>, index)
        ELSE IF entry.params = None
        THEN Failure("malformed configuration file", <<>>, <<>>, <<>>, 0)
        ELSE IF bad # {}
        THEN Failure(status(Least(bad)), name, params[Least(bad)].k,
                     IF status(Least(bad)) = "invalid value"
                     THEN params[Least(bad)].v.val ELSE <<>>,
                     index)
        ELSE OperationConfig(name,
                [k \in {params[j].k : j \in 1..Len(params)} |->
                    CastJson(schema[k], params[at(k)].v).val])

(***************************************************************************)
(* The inputs of config.parse_args: positional tokens and the -c file.     *)
(***************************************************************************)
TailChars == {",", "\\", "=", "1"}
Tails == {<<>>} \cup SeqsUpTo(TailChars, MaxTail)
Heads ==
    {<<>>,
     Spelling.n \o <<"=">>,
     Spelling.delimiter \o <<"=">>,
     Spelling.n \o <<"=", "1", ",">> \o Spelling.n \o <<"=">>,
     Spelling.delimiter \o <<"=", "1", ",">> \o Spelling.delimiter \o <<"=">>}
TokenNames == {Spelling.skip, Spelling.fork, <<"x">>}

RawTokens ==
    TokenNames
      \cup {nm \o <<"[">> \o hd \o tl \o <<"]">> : nm \in TokenNames, hd \in Heads, tl \in Tails}
      \cup {nm \o <<"[">> : nm \in TokenNames}
      \cup {<<"[", "]">>}

GoodTokens ==
    {Spelling.skip, Spelling.fork \o <<"[">> \o Spelling.delimiter \o <<"=", "\\", ",", "]">>}

\* token lists of up to MaxTokens tokens, one of them any raw token
TokenLists ==
    UNION {{[j \in 1..Len(gs) |-> IF j = at THEN tk ELSE gs[j]] :
               tk \in RawTokens, at \in 1..Len(gs)} :
           gs \in SeqsUpTo(GoodTokens, MaxTokens)}

JsonEntries ==
    {JsonEntry(Some(Spelling.skip), Some(<<>>)),
     JsonEntry(Some(Spelling.skip), Some(<<Param(Spelling.n, JsonInt(<<"2">>))>>)),
     JsonEntry(Some(Spelling.skip), Some(<<Param(Spelling.n, JsonStr(<<"a">>))>>)),
     JsonEntry(Some(Spelling.fork),
               Some(<<Param(Spelling.delimiter, JsonStr(<<",", "=">>))>>)),
     JsonEntry(Some(Spelling.fork),
               Some(<<Param(Spelling.delimiter, JsonInt(<<"1">>)), Param(<<"x">>, JsonInt(<<"1">>))>>)),
     JsonEntry(Some(<<"x">>), Some(<<>>)),
     JsonEntry(Some(<<"x">>), None),
     JsonEntry(None, Some(<<>>)),
     JsonEntry(Some(Spelling.skip), None)}

\* the file named by -c: unreadable, or a JSON object with or without "operations"
Unreadable == [readable |-> FALSE, operations |-> None]
JsonFile(entries) == [readable |-> TRUE, operations |-> entries]
Files ==
    {Unreadable, JsonFile(None), JsonFile(Some(<<>>))}
      \cup {JsonFile(Some(es)) : es \in SeqsUpTo(JsonEntries, MaxEntries)}

\* parsed_args: the positional tokens, the -c file, the -e flag
ParsedArgsOf(tokens, file) ==
    [operations |-> tokens, config |-> file, error_if_empty |-> FALSE]
ErrorIfEmpty(args) == [args EXCEPT !.error_if_empty = TRUE]
SourceArgs ==
    {ParsedArgsOf(<<>>, None)}
      \cup {ParsedArgsOf(tks, None) : tks \in TokenLists}
      \cup {ParsedArgsOf(<<>>, Some(f)) : f \in Files}
      \cup {ParsedArgsOf(tks, Some(f)) :
               tks \in SeqsUpTo(RawTokens \cap {<<"x">>, Spelling.skip, <<"[", "]">>}, MaxTokens),
               f \in {Unreadable, JsonFile(Some(<<>>)),
                      JsonFile(Some(<<JsonEntry(Some(Spelling.skip), Some(<<>>))>>))}}
CliArgs == SourceArgs \cup {ErrorIfEmpty(a) : a \in SourceArgs}

(***************************************************************************)
(* config.parse_args, from the namespace argparse returns (line 122) on.   *)
(***************************************************************************)
InitConfig ==
    /\ cli \in CliArgs
    /\ operations = <<>>
    /\ result = None
    /\ pc = "args"
    /\ heap = <<>>
    /\ last = NoCall
    /\ threads = NoThreads
    /\ outcome = None
    /\ warnings = 0
    /\ applied = <<>>
    /\ spawned = <<>>
    /\ overtaken = FALSE
    /\ argv = <<>>
    /\ data = <<>>
    /\ config = None
    /\ pos = 0
    /\ skip = 0
    /\ pipeline = 0
    /\ stdout = None
    /\ stderr = None
    /\ omitted = {}
    /\ classes = <<>>
    /\ visited = 0
    /\ OPERATIONS = {}

\* what the parser is at
At(where) == pc = where /\ UNCHANGED <<heap, last, threads, outcome, warnings, applied,
                                       spawned, overtaken, argv, data, config, pos, skip,
                                       pipeline, stdout, stderr, omitted, cli, registry>>

\* raise e
Raise(e) == result' = Some(e) /\ pc' = "raised" /\ UNCHANGED operations

\* variant with a seeded fault: the tokens win over the file when both are given
ChooseSourceTokensFirst ==
    /\ At("args")
    /\ pc' = IF cli.operations # <<>> THEN "cli" ELSE "file"
    /\ UNCHANGED <<operations, result>>

\* lines 123-128: tokens together with -c are refused; else the tokens, else the file
ChooseSource ==
    /\ At("args")
    /\ IF cli.operations # <<>> /\ cli.config # None
       THEN Raise(Failure("operations cannot be specified through CLI when using -c option",
                          <<>>, <<>>, <<>>, 0))
       ELSE /\ pc' = IF cli.operations # <<>> THEN "cli" ELSE "file"
            /\ UNCHANGED <<operations, result>>

\* variant with a seeded fault: the index given to the parser is the 0-based i
ParseTokenZeroBased ==
    /\ At("cli")
    /\ Len(operations) < Len(cli.operations)
    /\ LET r == ParseCliOperation(cli.operations[Len(operations) + 1], Len(operations))
       IN  IF r.ok
           THEN operations' = Append(operations, r) /\ UNCHANGED <<pc, result>>
           ELSE Raise(r)

\* line 126, one element of the list: token i + 1
ParseToken ==
    /\ At("cli")
    /\ Len(operations) < Len(cli.operations)
    /\ LET r == ParseCliOperation(cli.operations[Len(operations) + 1], Len(operations) + 1)
       IN  IF r.ok
           THEN operations' = Append(operations, r) /\ UNCHANGED <<pc, result>>
           ELSE Raise(r)

\* variant with a seeded fault: an absent path is reported like a file that cannot be opened
OpenConfigAbsentAsUnreadable ==
    /\ At("file")
    /\ IF cli.config = None \/ ~Val(cli.config).readable
       THEN Raise(Failure("could not open file", <<>>, <<>>, <<>>, 0))
       ELSE IF Val(cli.config).operations = None
       THEN Raise(Failure("malformed configuration file", <<>>, <<>>, <<>>, 0))
       ELSE pc' = "json" /\ UNCHANGED <<operations, result>>

\* _load_config, lines 71-72 and 81-84: open the file, read the key "operations"
OpenConfig ==
    /\ At("file")
    /\ IF cli.config = None
       THEN Raise([Failure("'NoneType' object has no attribute 'open'", <<>>, <<>>, <<>>, 0)
                      EXCEPT !.exc = "AttributeError"])
       ELSE IF ~Val(cli.config).readable
       THEN Raise(Failure("could not open file", <<>>, <<>>, <<>>, 0))
       ELSE IF Val(cli.config).operations = None
       THEN Raise(Failure("malformed configuration file", <<>>, <<>>, <<>>, 0))
       ELSE pc' = "json" /\ UNCHANGED <<operations, result>>

\* _load_config, lines 72-80: entry i + 1 of the array
LoadConfigEntry ==
    /\ At("json")
    /\ Len(operations) < Len(Val(Val(cli.config).operations))
    /\ LET r == LoadEntry(Val(Val(cli.config).operations)[Len(operations) + 1],
                          Len(operations) + 1)
       IN  IF r.ok
           THEN operations' = Append(operations, r) /\ UNCHANGED <<pc, result>>
           ELSE Raise(r)

\* lines 129-133: the Config
ReturnConfig ==
    /\ \/ At("cli") /\ Len(operations) = Len(cli.operations)
       \/ At("json") /\ Len(operations) = Len(Val(Val(cli.config).operations))
    /\ result' = Some([ok |-> TRUE, fail_if_empty |-> cli.error_if_empty,
                        operations |-> operations])
    /\ pc' = "returned"
    /\ UNCHANGED operations

NextConfig ==
    \/ ChooseSource
    \/ ParseToken
    \/ OpenConfig
    \/ LoadConfigEntry
    \/ ReturnConfig

SpecConfig == InitConfig /\ [][NextConfig]_vars

(***************************************************************************)
(* A run on the command line of config.py: main's lines 93-131 with the    *)
(* Config that config.parse_args returns as operations_config.             *)
(***************************************************************************)
RunTokens ==
    {Spelling.skip,
     Spelling.fork \o <<"[">> \o Spelling.delimiter \o <<"=", "\\", ",", "]">>,
     Spelling.merge,
     Spelling.reverse,
     <<"x">>}

RunArgs ==
    LET plain == {ParsedArgsOf(<<>>, None)}
                   \cup {ParsedArgsOf(tks, None) : tks \in SeqsUpTo(RunTokens, MaxTokens)}
                   \cup {ParsedArgsOf(<<>>, Some(f)) : f \in Files}
    IN  plain \cup {ErrorIfEmpty(a) : a \in plain}

InitRun ==
    /\ cli \in RunArgs
    /\ data \in MainInputs
    /\ operations = <<>>
    /\ result = None
    /\ pc = "args"
    /\ heap = <<>>
    /\ last = NoCall
    /\ threads = NoThreads
    /\ outcome = None
    /\ warnings = 0
    /\ applied = <<>>
    /\ spawned = <<>>
    /\ overtaken = FALSE
    /\ argv = <<>>
    /\ config = None
    /\ pos = 0
    /\ skip = 0
    /\ pipeline = 0
    /\ stdout = None
    /\ stderr = None
    /\ omitted = {}
    /\ classes = <<>>
    /\ visited = 0
    /\ OPERATIONS = {}

\* the word a spelling writes
Spelt(chars) == CHOOSE w \in DOMAIN Spelling : Spelling[w] = chars

\* an OperationConfig as the loop of main reads it: operation.name, operation.args
LoopEntry(op) ==
    [name |-> Spelt(op.name),
     args |-> [k \in {Spelt(c) : c \in DOMAIN op.args} |-> op.args[Spelling[k]]]]

\* main, lines 92-99: parse_args has returned or raised; a ValueError is printed,
\* any other exception ends the run with its traceback; else stdin.read and the
\* root Pipeline
MainConfig ==
    /\ pc \in {"returned", "raised"}
    /\ IF pc = "raised"
       THEN /\ stderr' = Some(Message(IF Val(result).exc = "ValueError"
                                      THEN "Error:" ELSE "Traceback",
                                      "", Val(result).index, Val(result).msg))
            /\ pc' = "exit"
            /\ UNCHANGED <<heap, applied, spawned, config, pipeline>>
       ELSE /\ config' = Some([m \in 1..Len(Val(result).operations) |->
                                 LoopEntry(Val(result).operations[m])])
            /\ heap' = <<NewPipeline>>
            /\ applied' = <<0>>
            /\ spawned' = <<0>>
            /\ pipeline' = 1
            /\ pc' = "loop"
            /\ UNCHANGED stderr
    /\ UNCHANGED <<last, threads, outcome, warnings, overtaken, argv, data, pos, skip,
                   stdout, omitted, parser, registry>>

NextRun ==
    \/ ChooseSource
    \/ ParseToken
    \/ OpenConfig
    \/ LoadConfigEntry
    \/ ReturnConfig
    \/ MainConfig
    \/ SkipEntry
    \/ MainFork
    \/ MainMerge
    \/ MainSkip
    \/ MainThen
    \/ MainExecute
    \/ \E t \in DOMAIN threads : Step(t)
    \/ Report

SpecRun == InitRun /\ [][NextRun]_vars

(***************************************************************************)
(* What the claims say of a token, read off its text.                      *)
(***************************************************************************)
\* the text of s before the first occurrence of ch, all of s when there is none
Before(s, ch) ==
    IF \A k \in 1..Len(s) : s[k] # ch THEN s
    ELSE SubSeq(s, 1, (CHOOSE k \in 1..Len(s) :
                          s[k] = ch /\ \A k2 \in 1..(k - 1) : s[k2] # ch) - 1)

\* the names and parameters of the registry the model knows
KnownParams ==
    {<<Spelling.fork, {Spelling.delimiter}>>, <<Spelling.merge, {Spelling.joiner}>>,
     <<Spelling.skip, {Spelling.n}>>, <<Spelling.reverse, {Spelling.by_line}>>,
     <<Spelling.from_base, {Spelling.base}>>, <<Spelling.pad_left, {Spelling.c}>>}
KnownNames == {e[1] : e \in KnownParams}
ParamsOf(name) == (CHOOSE e \in KnownParams : e[1] = name)[2]

\* the parser stopped on a token / on an entry of the file, and which one
FromTokens == cli.operations # <<>> /\ cli.config = None
FromFile == cli.operations = <<>> /\ cli.config # None /\ Val(cli.config).readable
               /\ Val(cli.config).operations # None
RaisedOnToken == pc = "raised" /\ FromTokens
RaisedOnEntry == pc = "raised" /\ FromFile
          /\ Len(operations) < Len(Val(Val(cli.config).operations))
FailedToken == cli.operations[Len(operations) + 1]
FailedEntry == Val(Val(cli.config).operations)[Len(operations) + 1]
ConfigReturned == pc = "returned" /\ result # None /\ Val(result).ok

(***************************************************************************)
(* C15.  A token or a file entry whose operation name is not registered is *)
(* rejected: no Config is returned, and the error raised for the first     *)
(* such token or entry names the operation and its 1-based position (a     *)
(* token that is not even of the form name[...] is rejected with its whole *)
(* text and its position).                                                 *)
(***************************************************************************)
C15_UnknownOperationRejected ==
    /\ (FromTokens /\ \E i \in 1..Len(cli.operations) :
                         Before(cli.operations[i], "[") \notin KnownNames)
          => ~ConfigReturned
    /\ (FromFile /\ \E i \in 1..Len(Val(Val(cli.config).operations)) :
                       LET e == Val(Val(cli.config).operations)[i]
                       IN  e.name # None /\ Val(e.name) \notin KnownNames)
          => ~ConfigReturned
    /\ (RaisedOnToken /\ Before(FailedToken, "[") \notin KnownNames) =>
          \/ Val(result) = Failure("undefined operation", Before(FailedToken, "["),
                                   <<>>, <<>>, Len(operations) + 1)
          \/ /\ Val(result) = Failure("invalid operation definition", <<>>, <<>>,
                                      FailedToken, Len(operations) + 1)
             /\ \/ Before(FailedToken, "[") = <<>>
                \/ /\ FailedToken # Before(FailedToken, "[")
                   /\ FailedToken # Before(FailedToken, "[") \o <<"[", "]">>
    /\ (RaisedOnEntry /\ FailedEntry.name # None /\ Val(FailedEntry.name) \notin KnownNames)
          => Val(result) = Failure("undefined operation", Val(FailedEntry.name),
                                   <<>>, <<>>, Len(operations) + 1)

\* the second token, x[n=1], names no registered operation: the error names x and 2
C15_Witness ==
    /\ RaisedOnToken
    /\ Len(operations) = 1
    /\ FailedToken = <<"x", "[", "n", "=", "1", "]">>
    /\ Val(result) = Failure("undefined operation", <<"x">>, <<>>, <<>>, 2)

(***************************************************************************)
(* C16.  Every OperationConfig the parser builds, and so every one of a    *)
(* returned Config, names a registered operation and has only keys of      *)
(* that operation's schema; a token or entry with a parameter name outside *)
(* the schema is rejected, and the error raised for it names the           *)
(* parameter, the operation and the 1-based position.                      *)
(***************************************************************************)
\* the text between the brackets of a token name[...]
Body(tok) == SubSeq(tok, Len(Before(tok, "[")) + 2, Len(tok) - 1)

\* the token is name[...] with a registered name and a parameter list the
\* token syntax admits
WellFormed(tok) ==
    /\ Before(tok, "[") \in KnownNames
    /\ Len(tok) >= Len(Before(tok, "[")) + 2
    /\ tok[Len(tok)] = "]"
    /\ Before(Body(tok), "=") # <<>>
    /\ Before(Body(tok), "=") # Body(tok)
    /\ \A k \in 1..Len(Before(Body(tok), "=")) : IsWordChar(Body(tok)[k])

C16_OnlySchemaParameters ==
    /\ \A j \in 1..Len(operations) :
          /\ operations[j].name \in KnownNames
          /\ DOMAIN operations[j].args \subseteq ParamsOf(operations[j].name)
    /\ ConfigReturned =>
          /\ Val(result).operations = operations
          /\ FromTokens => Len(operations) = Len(cli.operations)
          /\ FromFile => Len(operations) = Len(Val(Val(cli.config).operations))
    /\ (RaisedOnToken /\ WellFormed(FailedToken)
          /\ Before(Body(FailedToken), "=") \notin ParamsOf(Before(FailedToken, "[")))
          => Val(result) = Failure("invalid parameter", Before(FailedToken, "["),
                                   Before(Body(FailedToken), "="), <<>>, Len(operations) + 1)
    /\ (RaisedOnEntry /\ FailedEntry.name # None /\ Val(FailedEntry.name) \in KnownNames
          /\ FailedEntry.params # None
          /\ \E j \in 1..Len(Val(FailedEntry.params)) :
                Val(FailedEntry.params)[j].k \notin ParamsOf(Val(FailedEntry.name)))
          => \E j \in 1..Len(Val(FailedEntry.params)) :
                /\ Val(FailedEntry.params)[j].k \notin ParamsOf(Val(FailedEntry.name))
                /\ Val(result).index = Len(operations) + 1
                /\ Val(result).name = Val(FailedEntry.name)
                /\ Val(result).msg = "invalid parameter" =>
                      Val(result) = Failure("invalid parameter", Val(FailedEntry.name),
                                            Val(FailedEntry.params)[j].k, <<>>,
                                            Len(operations) + 1)
    /\ (pc = "raised" /\ Val(result).msg = "invalid parameter") =>
          /\ Val(result).name \in KnownNames
          /\ Val(result).param \notin ParamsOf(Val(result).name)
          /\ Val(result).index = Len(operations) + 1
          /\ FromTokens => Val(result).name = Before(FailedToken, "[")
          /\ FromFile => Val(result).name = Val(FailedEntry.name)

\* the second token, skip[delimiter=1]: skip has no parameter delimiter
C16_Witness ==
    /\ RaisedOnToken
    /\ Len(operations) = 1
    /\ FailedToken = Spelling.skip \o <<"[">> \o Spelling.delimiter \o <<"=", "1", "]">>
    /\ Val(result) = Failure("invalid parameter", Spelling.skip, Spelling.delimiter, <<>>, 2)

(***************************************************************************)
(* C19.  When both positional tokens and a -c file are given, parse_args   *)
(* raises the error "operations cannot be specified through CLI when       *)
(* using -c option": no token and no entry is parsed, no Config is         *)
(* returned, and no pipeline is built or executed.                         *)
(***************************************************************************)
BothSources == cli.operations # <<>> /\ cli.config # None

C19_TokensExcludeConfigFile ==
    BothSources =>
       /\ pc \in {"args", "raised"}
       /\ operations = <<>>
       /\ ~ConfigReturned
       /\ pc = "raised" =>
             result = Some(Failure("operations cannot be specified through CLI when using -c option",
                                   <<>>, <<>>, <<>>, 0))
       /\ heap = <<>> /\ last = NoCall /\ outcome = None /\ stdout = None

\* a valid token together with a readable, valid file is refused all the same
C19_Witness ==
    /\ cli.operations = <<Spelling.skip>>
    /\ cli.config = Some(JsonFile(Some(<<JsonEntry(Some(Spelling.skip), Some(<<>>))>>)))
    /\ pc = "raised"
    /\ Val(result).msg = "operations cannot be specified through CLI when using -c option"
    /\ operations = <<>>

(***************************************************************************)
(* C20.  In the parameter list of a token, a comma that no backslash       *)
(* precedes separates two parameters and a comma that a backslash precedes *)
(* does not; in each parameter every backslash-comma becomes a comma, and  *)
(* the parameter is cut into name and value at its first '=' only: the     *)
(* value parsed for fork's delimiter is all the text after that '=', with  *)
(* its ',' and '=' kept.                                                   *)
(***************************************************************************)
\* the commas of b that separate, and the ends of b
Cuts(b) ==
    {0, Len(b) + 1} \cup {k \in 1..Len(b) : b[k] = "," /\ (k = 1 \/ b[k - 1] # "\\")}

\* the parameters of b, each as the pair of cuts around it
Pieces(b) ==
    {x \in Cuts(b) \X Cuts(b) :
        x[1] < x[2] /\ \A k \in Cuts(b) : ~(x[1] < k /\ k < x[2])}
PieceText(b, x) == Unescape(SubSeq(b, x[1] + 1, x[2] - 1))
LastPiece(b) == CHOOSE x \in Pieces(b) : x[2] = Len(b) + 1

\* the text of s after its first '='
AfterEquals(s) == SubSeq(s, Len(Before(s, "=")) + 2, Len(s))

\* a token fork[...] of which every parameter is delimiter=...
ForkDelimiters(tok) ==
    /\ WellFormed(tok)
    /\ Before(tok, "[") = Spelling.fork
    /\ \A x \in Pieces(Body(tok)) :
          /\ Before(PieceText(Body(tok), x), "=") = Spelling.delimiter
          /\ PieceText(Body(tok), x) # Spelling.delimiter

C20_EscapedCommasAndFirstEquals ==
    /\ FromTokens =>
          \A j \in 1..Len(cli.operations) :
             ForkDelimiters(cli.operations[j]) =>
                /\ ~(pc = "raised" /\ Len(operations) + 1 = j)
                /\ j <= Len(operations) =>
                      operations[j] =
                         OperationConfig(Spelling.fork,
                            [k \in {Spelling.delimiter} |->
                                AfterEquals(PieceText(Body(cli.operations[j]),
                                                      LastPiece(Body(cli.operations[j]))))])
    /\ (RaisedOnToken /\ Val(result).msg = "malformed parameter") =>
          /\ WellFormed(FailedToken)
          /\ \E x \in Pieces(Body(FailedToken)) :
                /\ Val(result).param = PieceText(Body(FailedToken), x)
                /\ \A k \in 1..Len(Val(result).param) : Val(result).param[k] # "="
    /\ (RaisedOnToken /\ WellFormed(FailedToken)
          /\ \A x \in Pieces(Body(FailedToken)) :
                \E k \in 1..Len(PieceText(Body(FailedToken), x)) :
                   PieceText(Body(FailedToken), x)[k] = "=")
          => Val(result).msg # "malformed parameter"

\* fork[delimiter=\,=] is parsed to the delimiter ",=" : one parameter, cut at
\* its first '='
C20_Witness ==
    /\ FromTokens
    /\ \E j \in 1..Len(operations) :
          /\ cli.operations[j] =
                Spelling.fork \o <<"[">> \o Spelling.delimiter \o <<"=", "\\", ",", "=", "]">>
          /\ operations[j].args[Spelling.delimiter] = <<",", "=">>

(***************************************************************************)
(* The registry (api/operations/__init__.py).  _init walks globals() and   *)
(* registers every concrete Operation class under the key that             *)
(* format_operation_name gives its identifier.  An identifier is a         *)
(* sequence of characters; the classes of this package begin with an       *)
(* uppercase letter.                                                       *)
(***************************************************************************)
Alphabet ==
    <<"a", "b", "c", "d", "e", "f", "g", "h", "i", "j", "k", "l", "m",
      "n", "o", "p", "q", "r", "s", "t", "u", "v", "w", "x", "y", "z">>
Capitals ==
    <<"A", "B", "C", "D", "E", "F", "G", "H", "I", "J", "K", "L", "M",
      "N", "O", "P", "Q", "R", "S", "T", "U", "V", "W", "X", "Y", "Z">>

\* str.lower, one character
LowerChar(ch) ==
    IF ch \in Upper THEN Alphabet[CHOOSE i \in 1..26 : Capitals[i] = ch] ELSE ch

\* str.lower
ToLower(s) == [k \in 1..Len(s) |-> LowerChar(s[k])]

RECURSIVE SubUpper(_)
\* re.sub(r'([A-Z])', r'_\1', s): an underscore before every uppercase letter
SubUpper(s) ==
    IF s = <<>> THEN <<>>
    ELSE (IF s[1] \in Upper THEN <<"_", s[1]>> ELSE <<s[1]>>) \o SubUpper(Tail(s))

\* variant with a seeded fault: the key keeps the case of the identifier
FormatKeepsCase(s) == Tail(SubUpper(s))

\* Operation.format_operation_name: re.sub(...)[1:].lower()
FormatOperationName(s) == ToLower(SubSeq(SubUpper(s), 2, Len(SubUpper(s))))

\* an entry of globals(): its name, and whether v passes the test of lines 67-68
Global(name, concrete) == [name |-> name, concrete |-> concrete]

FirstChars == {"A"}
NextChars == {"B", "b", "_", "6"}
Identifiers ==
    {<<a>> \o r : a \in FirstChars, r \in {<<>>} \cup SeqsUpTo(NextChars, MaxName - 1)}

\* lists of up to MaxClasses globals with distinct names
ClassLists ==
    {cs \in SeqsUpTo({Global(nm, c) : nm \in Identifiers, c \in BOOLEAN}, MaxClasses) :
        \A i, j \in 1..Len(cs) : cs[i].name = cs[j].name => i = j}

InitRegistry ==
    /\ classes \in ClassLists
    /\ visited = 0
    /\ OPERATIONS = {}
    /\ pc = "init"
    /\ cli = None
    /\ operations = <<>>
    /\ result = None
    /\ heap = <<>>
    /\ last = NoCall
    /\ threads = NoThreads
    /\ outcome = None
    /\ warnings = 0
    /\ applied = <<>>
    /\ spawned = <<>>
    /\ overtaken = FALSE
    /\ argv = <<>>
    /\ data = <<>>
    /\ config = None
    /\ pos = 0
    /\ skip = 0
    /\ pipeline = 0
    /\ stdout = None
    /\ stderr = None
    /\ omitted = {}

\* _OPERATIONS[op_name] = v
SetItem(dict, key, v) == {e \in dict : e[1] # key} \cup {<<key, v>>}

\* inside _init: nothing but the registry changes
InInit ==
    /\ pc = "init"
    /\ UNCHANGED <<heap, last, threads, outcome, warnings, applied, spawned, overtaken,
                   argv, data, config, pos, skip, pipeline, stdout, stderr, omitted, parser>>

\* one turn of the loop of _init (lines 66-81)
Register ==
    /\ InInit
    /\ visited < Len(classes)
    /\ visited' = visited + 1
    /\ OPERATIONS' =
          IF classes[visited + 1].concrete
          THEN SetItem(OPERATIONS, FormatOperationName(classes[visited + 1].name),
                       classes[visited + 1].name)
          ELSE OPERATIONS
    /\ UNCHANGED <<pc, classes>>

\* the loop is over: _init returns (line 82) and the module is imported
InitReturns ==
    /\ InInit
    /\ visited = Len(classes)
    /\ pc' = "ready"
    /\ UNCHANGED <<classes, visited, OPERATIONS>>

NextRegistry ==
    \/ Register
    \/ InitReturns

SpecRegistry == InitRegistry /\ [][NextRegistry]_vars

(***************************************************************************)
(* C17.  Building the registry fails when two distinct operation           *)
(* identifiers normalize to the same key: once the build has succeeded     *)
(* every registered class is still found under its key, and no two         *)
(* registered classes share a key.                                         *)
(***************************************************************************)
\* the identifiers of the classes _init is to register
Operations == {classes[i].name : i \in {j \in 1..Len(classes) : classes[j].concrete}}

\* the key the statement gives an identifier: '_' before each uppercase
\* letter but the first, all in lowercase
RECURSIVE Separated(_)
Separated(s) ==
    IF s = <<>> THEN <<>>
    ELSE Separated(SubSeq(s, 1, Len(s) - 1))
           \o (IF Len(s) > 1 /\ s[Len(s)] \in Upper THEN <<"_">> ELSE <<>>)
           \o <<LowerChar(s[Len(s)])>>

Collision == \E a, b \in Operations : a # b /\ Separated(a) = Separated(b)

C17_CollisionFailsBuild ==
    pc = "ready" =>
       /\ ~Collision
       /\ \A a \in Operations : <<Separated(a), a>> \in OPERATIONS
       /\ \A e, f \in OPERATIONS : e[1] = f[1] => e = f

(***************************************************************************)
(* C18.  The key under which a class is registered is its identifier with  *)
(* a '_' inserted before each uppercase letter but the first and all       *)
(* letters lowercased; taking the inserted '_' out of the key gives the    *)
(* lowercased identifier; an identifier has one key.                       *)
(***************************************************************************)
\* the positions, in the key of s, of the separators inserted
Inserted(s) ==
    {k + Cardinality({m \in 2..k : s[m] \in Upper}) - 1 : k \in {m \in 2..Len(s) : s[m] \in Upper}}

RECURSIVE Without(_, _)
\* s without the characters at the positions P
Without(s, P) ==
    IF s = <<>> THEN <<>>
    ELSE Without(SubSeq(s, 1, Len(s) - 1), P)
           \o (IF Len(s) \in P THEN <<>> ELSE <<s[Len(s)]>>)

C18_KeyIsSeparatedLowercase ==
    /\ \A e \in OPERATIONS :
          /\ e[1] = Separated(e[2])
          /\ Len(e[1]) = Len(e[2]) + Cardinality(Inserted(e[2]))
          /\ \A k \in Inserted(e[2]) : e[1][k] = "_"
          /\ \A k \in 1..Len(e[1]) : e[1][k] \notin Upper
          /\ Without(e[1], Inserted(e[2])) = [k \in 1..Len(e[2]) |-> LowerChar(e[2][k])]
    /\ \A e, f \in OPERATIONS : e[2] = f[2] => e[1] = f[1]
    /\ (pc \in {"init", "ready"} /\ visited >= 1 /\ classes[visited].concrete) =>
          <<Separated(classes[visited].name), classes[visited].name>> \in OPERATIONS

\* the class AbB has just been registered, under the key ab_b
C18_Witness ==
    /\ visited >= 1
    /\ classes[visited] = Global(<<"A", "b", "B">>, TRUE)
    /\ <<<<"a", "b", "_", "b">>, <<"A", "b", "B">>>> \in OPERATIONS

(***************************************************************************)
(* C21.  fork called on a group that is not merged yet appends the new     *)
(* group to that group's node list and records that group as the new       *)
(* group's parent; merge on the new group returns that enclosing group,    *)
(* not the main pipeline.                                                  *)
(***************************************************************************)
\* the positions of p's list that hold the group q
PlacesOf(p, q) == {j \in 1..Len(Nodes(p)) : Nodes(p)[j] = PipeNode(q)}

OnlyDelimiters(s, d) ==
    /\ s # <<>>
    /\ d # <<>>
    /\ Len(s) % Len(d) = 0
    /\ \A k \in 1..(Len(s) \div Len(d)) : SubSeq(s, (k - 1) * Len(d) + 1, k * Len(d)) = d

C28_OnlyDelimitersGivesEmpty ==
    /\ \A x \in ParFrames :
          OnlyDelimiters(FrameAt(x).input, Delim(FrameAt(x).pipe)) =>
             /\ FrameAt(x).n = 0
             /\ \A k \in 1..MaxFields + 1 : Append(x[1], k) \notin DOMAIN threads
    /\ \A c \in ReturnedCalls :
          (Merged(c.pipe) /\ OnlyDelimiters(c.input, Delim(c.pipe))) => c.output = <<>>
    /\ (TopCall /\ Merged(last.target) /\ OnlyDelimiters(last.arg, Delim(last.target))) =>
          /\ \A p \in 1..Len(heap) : applied[p] = 0 /\ spawned[p] = 0
          /\ DOMAIN threads \subseteq {Main}
          /\ pc = "done" => outcome = Some(Ok(<<>>))

\* the group [reverse] merged with "|" has returned "" for the input ",,"
C28_Witness ==
    /\ TopDone
    /\ Merged(last.target)
    /\ heap[last.target].joiner = Some(<<"|">>)
    /\ \E j \in 1..Len(Nodes(last.target)) : Nodes(last.target)[j].kind = "op"
    /\ last.arg = <<",", ",">>
    /\ outcome = Some(Ok(<<>>))
    /\ applied[last.target] = 0
    /\ spawned[last.target] = 0

(***************************************************************************)
(* C24.  No step of an execute call changes a pipeline's node list,        *)
(* delimiter or joiner; the branch threads of a group all run the group's  *)
(* node list, and a step of one thread leaves the frames (the buffers) and *)
(* the result slot of every other thread as they were, in every            *)
(* interleaving.                                                           *)
(***************************************************************************)
\* the thread that created thread x, and the group whose execute did
Creator(x) == SubSeq(x, 1, Len(x) - 1)
CreatorGroup(x) ==
    LET st == threads[Creator(x)].stack
    IN  st[Len(st)].pipe

\* every branch thread runs the node list of the group that created it
BranchesShareNodeList ==
    \A x \in DOMAIN threads :
       (x # Main /\ threads[x].stack # <<>>) =>
          /\ threads[Creator(x)].stack # <<>>
          /\ threads[Creator(x)].stack[Len(threads[Creator(x)].stack)].kind = "par"
          /\ threads[x].stack[1].pipe = CreatorGroup(x)

C24_ExecuteIsReadOnly ==
    [][(pc = "exec" \/ pc' = "exec" \/ last'.call = "execute") =>
          /\ heap' = heap
          /\ BranchesShareNodeList
          /\ \E t \in DOMAIN threads' \cup {Main} :
                \A x \in (DOMAIN threads \cap DOMAIN threads') \ {t} :
                   /\ threads'[x].stack = threads[x].stack
                   /\ threads'[x].result = threads[x].result]_vars

\* two branch threads of one group are running, each past its first node,
\* with buffers of their own
C24_Witness ==
    /\ pc = "exec"
    /\ \E x, y \in DOMAIN threads :
          /\ x # y
          /\ Creator(x) = Creator(y)
          /\ Running(x) /\ Running(y)
          /\ Len(threads[x].stack) = 1 /\ Len(threads[y].stack) = 1
          /\ Top(x).pipe = Top(y).pipe
          /\ Top(x).log # <<>> /\ Top(y).log # <<>>
          /\ Top(x).buffer # Top(y).buffer

(***************************************************************************)
(* C23.  The split branch of a group's execute leaves its join loop, to    *)
(* merge the results and hand them to the node that follows the group,     *)
(* only when every branch thread it created has ended; as long as a branch *)
(* thread has not ended the top-level execute has neither returned nor     *)
(* raised and nothing is printed, so a branch that never ends keeps it     *)
(* from ever returning.                                                    *)
(***************************************************************************)
Unfinished(x) == x # Main /\ x \in DOMAIN threads /\ threads[x].state \in {"new", "running"}
SomeUnfinished == \E x \in DOMAIN threads : Unfinished(x)

\* the creator of an unfinished branch is inside the split branch of execute
CreatorsWait ==
    \A x \in DOMAIN threads :
       Unfinished(x) =>
          /\ Running(Creator(x))
          /\ Top(Creator(x)).kind = "par"
          /\ x[Len(x)] <= Top(Creator(x)).n
          /\ Top(Creator(x)).phase = "join" => Top(Creator(x)).i <= x[Len(x)]

\* thread t leaves the split branch of execute in this step
LeavesSplit(t) ==
    /\ Running(t)
    /\ Top(t).kind = "par"
    /\ \/ t \notin DOMAIN threads'
       \/ Len(threads'[t].stack) < Len(threads[t].stack)

C23_JoinBarrier ==
    /\ [](SomeUnfinished => (CreatorsWait /\ pc = "exec" /\ outcome = None /\ stdout = None))
    /\ [][\A t \in DOMAIN threads :
             LeavesSplit(t) =>
                \A k \in 1..Top(t).n : threads[Append(t, k)].state \in {"done", "failed"}]_vars
    /\ (<>[]SomeUnfinished) => [](outcome = None)

\* the caller waits in join for the first branch thread, which still runs,
\* while the second has already ended
C23_Witness ==
    /\ pc = "exec"
    /\ Running(Main)
    /\ Top(Main).kind = "par"
    /\ Top(Main).phase = "join"
    /\ Top(Main).i = 1
    /\ Top(Main).n >= 2
    /\ threads[<<1>>].state = "running"
    /\ threads[<<2>>].state = "done"
    /\ outcome = None

(***************************************************************************)
(* C29.  With operations whose apply terminates, every execute call on a   *)
(* pipeline whose groups are merged ends, by returning or by raising;      *)
(* every branch thread is started once, from the state it is created in,   *)
(* and joined once, after it has ended, by the thread that created it; no  *)
(* thread is left once execute has returned or failed.                     *)
(***************************************************************************)
\* the states a thread goes through
ThreadMoves == {<<"new", "running">>, <<"running", "done">>, <<"running", "failed">>}

\* the branch threads of t that its join loop has passed
Joined(t) == IF Top(t).phase = "join" THEN 1..(Top(t).i - 1) ELSE {}

C29_ExecuteTerminates ==
    /\ [](pc = "done" => (threads = NoThreads /\ outcome # None))
    /\ [](\A t \in DOMAIN threads :
             (Running(t) /\ Top(t).kind = "par") =>
                /\ \A k \in 1..Top(t).n : Append(t, k) \in DOMAIN threads
                /\ \A k \in Joined(t) : threads[Append(t, k)].state \in {"done", "failed"}
                /\ Top(t).phase = "start" =>
                      \A k \in 1..Top(t).n :
                         threads[Append(t, k)].state = "new" <=> k >= Top(t).i
                /\ Top(t).phase = "join" =>
                      \A k \in 1..Top(t).n : threads[Append(t, k)].state # "new")
    /\ [][/\ \A x \in DOMAIN threads \cap DOMAIN threads' :
                \/ threads'[x].state = threads[x].state
                \/ <<threads[x].state, threads'[x].state>> \in ThreadMoves
          /\ \A x \in DOMAIN threads \ DOMAIN threads' :
                \/ x = Main
                \/ threads[x].state \in {"done", "failed"} /\ Joined(Creator(x)) = 1..Top(Creator(x)).n
          /\ \A x \in DOMAIN threads' \ DOMAIN threads :
                threads'[x].state = IF x = Main THEN "running" ELSE "new"
          /\ \A t \in DOMAIN threads \cap DOMAIN threads' :
                (Running(t) /\ Top(t).kind = "par" /\ Top(t).phase = "join"
                   /\ Len(threads'[t].stack) = Len(threads[t].stack)) =>
                      threads'[t].stack[Len(threads'[t].stack)].i \in {Top(t).i, Top(t).i + 1}]_vars
    /\ (pc = "exec") ~> (pc = "done")

\* an execute that created three branch threads in a group has returned
C29_Witness ==
    /\ TopDone
    /\ outcome # None
    /\ Val(outcome).ok
    /\ threads = NoThreads
    /\ \E p \in 1..Len(heap) : spawned[p] = 3 /\ applied[p] = 3

(***************************************************************************)
(* C26.  In the driver, when the entries that are processed hold more      *)
(* forks than merges, execute is called on the innermost group still open  *)
(* and not on the main pipeline: it raises the not-merged RuntimeError, no *)
(* apply is called, not even for the operations configured before that     *)
(* fork, and the run prints the error and no result.                       *)
(***************************************************************************)
\* the entries named name that the loop has processed
ProcessedNamed(name) ==
    {i \in (1..Len(Val(config))) \ omitted : Val(config)[i].name = name}

\* the assembly went through and left a fork open
ForkLeftOpen ==
    /\ config # None
    /\ TopCall
    /\ Cardinality(ProcessedNamed("fork")) > Cardinality(ProcessedNamed("merge"))

C26_OpenForkFailsTheRun ==
    ForkLeftOpen =>
       /\ last.target = pipeline
       /\ last.target # 1
       /\ Unmerged(last.target)
       /\ \A q \in 1..Len(heap) : Unmerged(q) => q <= last.target
       /\ outcome = Some(Err("RuntimeError"))
       /\ threads = NoThreads
       /\ \A p \in 1..Len(heap) : applied[p] = 0 /\ spawned[p] = 0
       /\ stdout = None
       /\ pc \in {"done", "exit"}
       /\ pc = "exit" => stderr = Some(Message("Error:", "", 0, "RuntimeError"))

\* reverse, fork: the run has ended with the error, reverse was never applied
\* although the input is not empty
C26_Witness ==
    /\ pc = "exit"
    /\ ForkLeftOpen
    /\ data # <<>>
    /\ Len(Nodes(1)) = 2
    /\ Nodes(1)[1] = OpNode("reverse")
    /\ Nodes(1)[2] = PipeNode(2)
    /\ last.target = 2
    /\ applied[1] = 0
    /\ stderr = Some(Message("Error:", "", 0, "RuntimeError"))

(***************************************************************************)
(* C30.  parse_args given neither positional tokens nor -c returns no      *)
(* Config, and so none with an empty list of operations: it goes to load   *)
(* the configuration from the absent path and fails there with an          *)
(* exception that is not the ValueError of the configuration errors.       *)
(***************************************************************************)
NoSource == cli.operations = <<>> /\ cli.config = None

EmptyDelimiter(g) == IsGroup(g) /\ heap[g].delimiter = Some(<<>>)

C27_EmptyDelimiterFailsAtExecute ==
    /\ (last.call = "fork" /\ last.arg = <<>>) =>
          /\ last.exc = ""
          /\ EmptyDelimiter(last.ret)
          /\ Unmerged(last.ret)
    /\ (last.call = "merge" /\ EmptyDelimiter(last.target)) =>
          /\ Merged(last.target)
          /\ last.exc \in {"", "RuntimeError"}
    /\ \A g \in 1..Len(heap) :
          EmptyDelimiter(g) =>
             /\ applied[g] = 0
             /\ spawned[g] = 0
             /\ \A x \in Frames : FrameAt(x).pipe # g
    /\ (TopCall /\ EmptyDelimiter(last.target) /\ Merged(last.target)) =>
          /\ pc = "done"
          /\ outcome = Some(Err("ValueError"))
          /\ threads = NoThreads

\* a merged group with the empty delimiter and an operation has been executed
\* on the empty input, and on a non-empty one elsewhere
C27_Witness ==
    /\ TopDone
    /\ EmptyDelimiter(last.target)
    /\ Merged(last.target)
    /\ Nodes(last.target) = <<OpNode("reverse")>>
    /\ last.arg = <<>>
    /\ outcome = Some(Err("ValueError"))

(***************************************************************************)
(* C25.  A merged group G whose node list holds a merged group H, run on   *)
(* an input in which G's delimiter occurs, runs H inside each branch of G  *)
(* on the buffer of that branch: the result is G's joiner joining, in      *)
(* substring order, what G's whole node list gives for each non-empty      *)
(* substring, H splitting and joining on its own in each of them.          *)
(***************************************************************************)
\* the merged groups in g's node list
NestedIn(g) ==
    {Nodes(g)[j].ref : j \in {m \in 1..Len(Nodes(g)) :
                                 Nodes(g)[m].kind = "pipe" /\ Merged(Nodes(g)[m].ref)}}

\* the frame under frame x of the same thread, which called it
CallerFrame(x) == FrameAt(<<x[1], x[2] - 1>>)

C25_NestedGroupRunsInsideEachBranch ==
    /\ (TopDone /\ Merged(last.target) /\ NestedIn(last.target) # {}
          /\ Splits(last.target, last.arg)
          /\ \A k \in 1..Len(BranchOutputs(last.target, last.arg)) :
                BranchOutputs(last.target, last.arg)[k] # None) =>
          outcome = Some(Ok(StrJoin(Val(heap[last.target].joiner),
                                    [k \in 1..Len(BranchOutputs(last.target, last.arg)) |->
                                        Val(BranchOutputs(last.target, last.arg)[k])])))
    /\ \A x \in Frames :
          x[2] > 1 =>
             /\ CallerFrame(x).kind = "exec"
             /\ Nodes(CallerFrame(x).pipe)[CallerFrame(x).i] = PipeNode(FrameAt(x).pipe)
             /\ FrameAt(x).input = CallerFrame(x).buffer
             /\ FrameAt(x).kind = "par" <=> Splits(FrameAt(x).pipe, FrameAt(x).input)
    /\ \A y \in DOMAIN threads :
          (y # Main /\ threads[y].stack # <<>>) =>
             threads[y].stack[1].input =
                NonEmptyPieces(Top(Creator(y)).input, Delim(Top(Creator(y)).pipe))[y[Len(y)]]

\* G = [H] with "," and "|", H = [reverse] with ";" and "": "ab;ab,ab" gives
\* "baba|ba", H having split the first branch and not the second
C25_Witness ==
    /\ TopDone
    /\ Merged(last.target)
    /\ Delim(last.target) = <<",">>
    /\ heap[last.target].joiner = Some(<<"|">>)
    /\ \E h \in NestedIn(last.target) :
          /\ Nodes(last.target) = <<PipeNode(h)>>
          /\ Delim(h) = <<";">>
          /\ heap[h].joiner = Some(<<>>)
          /\ Nodes(h) = <<OpNode("reverse")>>
          /\ spawned[h] = 2
    /\ last.arg = <<"a", "b", ";", "a", "b", ",", "a", "b">>
    /\ outcome = Some(Ok(<<"b", "a", "b", "a", "|", "b", "a">>))

(***************************************************************************)
(* C22.  With -e set, a run whose resulting pipeline is empty ends in a    *)
(* fatal error instead of emitting a warning and returning the input       *)
(* unchanged.                                                              *)
(***************************************************************************)
\* the run is over and the pipeline the loop left is the root with no node
EndedEmpty ==
    /\ pc = "exit"
    /\ config # None
    /\ pipeline = 1
    /\ Nodes(1) = <<>>

=============================================================================
